---------------------------- MODULE Spec2Model ----------------------------
(***************************************************************************)
(* Model of the UDP-driven patch display of src/scripts/                   *)
(* screen_patch_display.py: the datagram receiver and its line parser, the  *)
(* command queue, the coalescing render tick (_drain_and_apply) and the     *)
(* per-cell widget state (text label, HorizontalBar, DualRing).             *)
(*                                                                         *)
(* Representation.  A Python str is a sequence of one-character strings,    *)
(* so that strip/split/upper/int()/validate_color are computed and not      *)
(* assumed.  An Optional[T] is a sequence of length 0 (None) or 1.          *)
(***************************************************************************)
EXTENDS Integers, Sequences, FiniteSets, TLC

(***************************************************************************)
(* Bounds of the model (not program constants).                            *)
(***************************************************************************)
\* Datagrams a bounded sender emits in one behaviour.
MaxCmds == 4
\* Longest command queue explored (queue.Queue() itself is unbounded).
MaxQueue == 3
\* The per-tick cap.  The source sets it to 50 (line 59); the model scales it
\* down so that bursts larger than the cap are reached within MaxCmds.
MAX_APPLIES_PER_TICK == 2
\* Fractional bits kept of a float quotient.
MantissaBits == 20
\* Datagrams of the sender that sweeps the ring values.
ExtentCmds == 1

(***************************************************************************)
(* Program constants.                                                      *)
(***************************************************************************)
DEFAULT_ROWS == 11
COLS_PER_ROW == <<4, 4, 4, 8, 4, 4, 4, 8, 4, 8, 8>>
\* Mutant of BAR_ROWS: row 8 is a bar row too.
BAR_ROWS_With8 == {3, 7, 8}
BAR_ROWS == {3, 7}
RING_OUTER_ARC_WIDTH == 10
RING_INNER_ARC_WIDTH == 27
RING_SWEEP_MAX == 240
RING_DISPLAY_SIZE == 260

(***************************************************************************)
(* Optional values and strings.                                            *)
(***************************************************************************)
None == <<>>
Some(x) == <<x>>
The(o) == o[1]

\* The value of a one-point function [x \in {v} |-> e]: e with x bound to
\* v, v being computed once, before e (a strict let: what a statement
\* assigns is computed when the statement runs, not at each later use).
Strict(f) == CHOOSE r \in { g[CHOOSE x \in DOMAIN g : TRUE] : g \in {f} } : TRUE

Max(a, b) == IF a >= b THEN a ELSE b
Min(a, b) == IF a <= b THEN a ELSE b

LowerChars == <<"a","b","c","d","e","f","g","h","i","j","k","l","m",
                "n","o","p","q","r","s","t","u","v","w","x","y","z">>
UpperChars == <<"A","B","C","D","E","F","G","H","I","J","K","L","M",
                "N","O","P","Q","R","S","T","U","V","W","X","Y","Z">>
DigitChars == <<"0","1","2","3","4","5","6","7","8","9">>
HexChars == {"0","1","2","3","4","5","6","7","8","9",
             "a","b","c","d","e","f","A","B","C","D","E","F"}
SpaceChars == {" ", "\t", "\n", "\r"}

IndexIn(ch, s) == IF \E i \in 1..Len(s) : s[i] = ch
                  THEN CHOOSE i \in 1..Len(s) : s[i] = ch
                  ELSE 0

\* str.upper() / str.lower(), character by character.
UpperCh(ch) == IF IndexIn(ch, LowerChars) > 0
               THEN UpperChars[IndexIn(ch, LowerChars)] ELSE ch
LowerCh(ch) == IF IndexIn(ch, UpperChars) > 0
               THEN LowerChars[IndexIn(ch, UpperChars)] ELSE ch
Upper(s) == [i \in 1..Len(s) |-> UpperCh(s[i])]
Lower(s) == [i \in 1..Len(s) |-> LowerCh(s[i])]

\* str.rstrip(): drop trailing whitespace.
RECURSIVE RStrip(_)
RStrip(s) == IF s # <<>> /\ s[Len(s)] \in SpaceChars
             THEN RStrip(SubSeq(s, 1, Len(s) - 1)) ELSE s
\* str.lstrip()
RECURSIVE LStrip(_)
LStrip(s) == IF s # <<>> /\ s[1] \in SpaceChars THEN LStrip(Tail(s)) ELSE s
\* str.strip()
Strip(s) == LStrip(RStrip(s))
\* str.rstrip(";"): drop every trailing semicolon.
RECURSIVE RStripSemi(_)
RStripSemi(s) == IF s # <<>> /\ s[Len(s)] = ";"
                 THEN RStripSemi(SubSeq(s, 1, Len(s) - 1)) ELSE s

\* str.split(): the maximal runs of non-whitespace characters, in order.
RECURSIVE SplitFrom(_, _, _)
SplitFrom(s, i, cur) ==
    IF i > Len(s)
    THEN IF cur = <<>> THEN <<>> ELSE <<cur>>
    ELSE IF s[i] \in SpaceChars
         THEN IF cur = <<>> THEN SplitFrom(s, i + 1, <<>>)
                            ELSE <<cur>> \o SplitFrom(s, i + 1, <<>>)
         ELSE SplitFrom(s, i + 1, Append(cur, s[i]))
Split(s) == SplitFrom(s, 1, <<>>)

\* " ".join(parts[from:]) with from a 1-based index.
RECURSIVE JoinFrom(_, _)
JoinFrom(parts, from) ==
    IF from > Len(parts) THEN <<>>
    ELSE IF from = Len(parts) THEN parts[from]
    ELSE parts[from] \o <<" ">> \o JoinFrom(parts, from + 1)

\* int(token): an optional sign and one or more decimal digits; anything else
\* raises ValueError.  (Underscore and non-ASCII digit forms are outside the
\* token alphabet explored.)
IsDigits(s) == s # <<>> /\ \A i \in 1..Len(s) : IndexIn(s[i], DigitChars) > 0
\* Mutant of IsIntTok: int() takes every token.
IsIntTokAny(t) == TRUE
IsIntTok(t) == IF t # <<>> /\ t[1] \in {"+", "-"} THEN IsDigits(Tail(t))
               ELSE IsDigits(t)
RECURSIVE DigitsVal(_)
DigitsVal(s) == IF s = <<>> THEN 0
                ELSE 10 * DigitsVal(SubSeq(s, 1, Len(s) - 1))
                     + (IndexIn(s[Len(s)], DigitChars) - 1)
IntOf(t) == IF t[1] = "-" THEN 0 - DigitsVal(Tail(t))
            ELSE IF t[1] = "+" THEN DigitsVal(Tail(t))
            ELSE DigitsVal(t)

\* str(n) for an integer n.
RECURSIVE NatStr(_)
NatStr(n) == IF n < 10 THEN <<DigitChars[n + 1]>>
             ELSE NatStr(n \div 10) \o <<DigitChars[(n % 10) + 1]>>
IntStr(n) == IF n < 0 THEN <<"-">> \o NatStr(0 - n) ELSE NatStr(n)


(***************************************************************************)
(* Colours.                                                                *)
(***************************************************************************)
validate_color(color) ==
    IF color = <<>> THEN FALSE
    ELSE IF color[1] = "#"
         THEN Len(color) \in {4, 7, 9}
              /\ \A i \in 2..Len(color) : color[i] \in HexChars
         ELSE TRUE

\* Colour names the toolkit knows among the names the model uses.
TkColorNames == { <<"b","l","a","c","k">>, <<"w","h","i","t","e">> }

\* Whether a widget option write with this colour is accepted; a refused
\* write raises tk.TclError.  Tk parses "#" followed by 3, 6, 9 or 12 hex
\* digits, or a colour name it knows.
TkAcceptsColor(color) ==
    IF color = <<>> THEN FALSE
    ELSE IF color[1] = "#"
         THEN Len(color) \in {4, 7, 10, 13}
              /\ \A i \in 2..Len(color) : color[i] \in HexChars
         ELSE color \in TkColorNames

(***************************************************************************)
(* parse_message: one stripped line to a message tuple, or None.           *)
(***************************************************************************)
H_ARC == <<"A","R","C">>
H_BAR == <<"B","A","R">>
H_ALIGN == <<"A","L","I","G","N">>
H_BG == <<"B","G">>
H_RING == <<"R","I","N","G">>
H_RINGVAL == <<"R","I","N","G","V","A","L">>
H_RINGSET == <<"R","I","N","G","S","E","T">>

\* All of parts[i], i in idx, convert with int().
AllInt(parts, idx) == \A i \in idx : IsIntTok(parts[i])

ParseParts(parts) ==
    LET head == Upper(parts[1])
        n == Len(parts)
        I(i) == IntOf(parts[i])
    IN  IF head = H_ARC /\ n >= 5
        THEN IF AllInt(parts, 2..5)
             THEN Some(<<"ARC_VALUE", I(3), I(2), I(4), I(5)>>) ELSE None
        ELSE IF head = H_BAR /\ n >= 4
        THEN IF AllInt(parts, 2..4)
             THEN Some(<<"BAR_VALUE", I(2), I(3), I(4)>>) ELSE None
        ELSE IF head = H_ALIGN /\ n >= 4
        THEN IF AllInt(parts, 2..3)
             THEN Some(<<"ALIGN_CELL", I(2), I(3), parts[4]>>) ELSE None
        ELSE IF head = H_BG /\ n >= 4
        THEN IF AllInt(parts, 2..3)
             THEN Some(<<"BG_CELL", I(2), I(3), parts[4]>>) ELSE None
        ELSE IF head = H_RING /\ n >= 9
        THEN IF AllInt(parts, {2, 3, 7, 8, 9})
             THEN Some(<<"RING_STYLE", I(3), I(2), parts[4], parts[5], parts[6],
                         I(7), I(8), I(9)>>)
             ELSE None
        ELSE IF head = H_RINGVAL /\ n >= 5
        THEN IF AllInt(parts, 2..5)
             THEN Some(<<"RING_VALUE", I(3), I(2), I(4), I(5),
                         IF n > 5 THEN Some(RStripSemi(JoinFrom(parts, 6)))
                                  ELSE None>>)
             ELSE None
        ELSE IF head = H_RINGSET /\ n >= 11
        THEN IF AllInt(parts, {2, 3, 4, 5, 9, 10, 11})
             THEN Some(<<"RING_SET", I(3), I(2), I(4), I(5),
                         parts[6], parts[7], parts[8], I(9), I(10), I(11)>>)
             ELSE None
        ELSE IF n >= 5
        THEN IF AllInt(parts, 1..2)
             THEN IF n >= 6
                  THEN Some(<<"SET", I(2), I(1), parts[3], parts[4],
                              Some(parts[5]), RStripSemi(JoinFrom(parts, 6))>>)
                  ELSE Some(<<"SET", I(2), I(1), parts[3], parts[4],
                              None, RStripSemi(JoinFrom(parts, 5))>>)
             ELSE None
        ELSE None

\* Mutant of parse_message: a BG line is read as col row.
parse_message_BgColRow(line) ==
    IF line = <<>> THEN None
    ELSE LET l1 == IF line[Len(line)] = ";"
                   THEN RStrip(SubSeq(line, 1, Len(line) - 1)) ELSE line
             parts == Split(l1)
             m == IF parts = <<>> THEN None ELSE ParseParts(parts)
         IN  IF m # None /\ The(m)[1] = "BG_CELL"
             THEN Some([The(m) EXCEPT ![2] = The(m)[3], ![3] = The(m)[2]])
             ELSE m

parse_message(line) ==
    IF line = <<>> THEN None
    ELSE LET l1 == IF line[Len(line)] = ";"
                   THEN RStrip(SubSeq(line, 1, Len(line) - 1)) ELSE line
             parts == Split(l1)
         IN  IF parts = <<>> THEN None ELSE ParseParts(parts)

\* The receiver's handling of one datagram: decode, strip, parse.
ReceiveLine(data) == parse_message(Strip(data))

(***************************************************************************)
(* Grid geometry.                                                          *)
(***************************************************************************)
InGrid(r, c) == /\ 0 <= r /\ r < DEFAULT_ROWS
                /\ 0 <= c /\ c < COLS_PER_ROW[r + 1]
Grid == { rc \in (0..(DEFAULT_ROWS - 1)) \X (0..7) : InGrid(rc[1], rc[2]) }

(***************************************************************************)
(* HorizontalBar and DualRing.                                             *)
(***************************************************************************)
\* Mutant of ClipValue: the upper clamp is missing.
ClipValueNoUpper(v) == Max(0, v)

\* _clip_value of an int (the parser only hands over ints).
ClipValue(v) == Max(0, Min(127, v))

NewBar == [value |-> 0]
BarSetValue(bar, value) == [bar EXCEPT !.value = ClipValue(value)]

\* v / 127.0, in units of 2^-MantissaBits and rounded to the nearest unit:
\* the float quotient at a precision coarser than the 52 bits of a double.
Quotient127(v) == (2 * v * 2^MantissaBits + 127) \div 254

\* Mutant of Extent: the quotient is the integer quotient v // 127.
ExtentIntDiv(v) == (0 - RING_SWEEP_MAX) * ((v \div 127) * 2^MantissaBits)

\* Lines 385-388: -RING_SWEEP_MAX * (v / 127.0), in units of 2^-MantissaBits
\* degrees.  (For v = 0 Python yields -0.0, which is equal to 0.)
Extent(v) == (0 - RING_SWEEP_MAX) * Quotient127(v)

\* _update_extents: the four arcs get their extents; the corner labels follow
\* the extra values only when these differ from the values at the last dot
\* update.
UpdateExtents(ring) ==
    Strict([r1 \in {[ring EXCEPT
                        !.ext_outer = Extent(ring.outer_val),
                        !.ext_inner = Extent(ring.inner_val),
                        !.ext_extra1 = Extent(ring.extra_arc1_val),
                        !.ext_extra2 = Extent(ring.extra_arc2_val)]} |->
      IF r1.extra_arc1_val # r1.last_extra1_val
         \/ r1.extra_arc2_val # r1.last_extra2_val
      THEN [r1 EXCEPT
              !.extra_label1 = Some(IntStr(Max(0, r1.extra_arc1_val))),
              !.extra_label2 = Some(IntStr(Max(0, r1.extra_arc2_val))),
              !.last_extra1_val = r1.extra_arc1_val,
              !.last_extra2_val = r1.extra_arc2_val]
      ELSE r1])

\* _update_label
UpdateLabel(ring) ==
    [ring EXCEPT !.label =
        IF ring.center_override # None THEN ring.center_override
        ELSE Some(IntStr(Max(1, ring.inner_val)))]

\* _redraw raises tk.TclError when an arc is created with a colour the
\* toolkit refuses; the canvas has then been cleared and holds no label.
RedrawRaises(ring) ==
    ~TkAcceptsColor(ring.fg_inner) \/ ~TkAcceptsColor(ring.fg_outer)

Redraw(ring) ==
    IF RedrawRaises(ring)
    THEN [ring EXCEPT !.label = None, !.extra_label1 = None,
                      !.extra_label2 = None]
    ELSE Strict([drawn \in {[ring EXCEPT
                                !.label = Some(IntStr(Max(1, ring.inner_val))),
                                !.extra_label1 = Some(<<"0">>),
                                !.extra_label2 = Some(<<"0">>)]} |->
                   UpdateExtents(drawn)])

\* DualRing.__init__ raises when the frame, the canvas or the first redraw
\* is refused a colour.
NewRingRaises(fg_outer, fg_inner, bg) ==
    ~TkAcceptsColor(bg) \/ ~TkAcceptsColor(fg_inner)
    \/ ~TkAcceptsColor(fg_outer)

\* Mutant of NewRing: a new ring starts with values and a center override
\* left from before.
NewRingRetains(fg_outer, fg_inner, bg, w_outer, w_inner) ==
    Strict([fresh \in {[display_size |-> RING_DISPLAY_SIZE,
                        bg |-> bg, fg_outer |-> fg_outer, fg_inner |-> fg_inner,
                        w_outer |-> w_outer, w_inner |-> w_inner,
                        outer_val |-> 64, inner_val |-> 32,
                        extra_arc1_val |-> 0, extra_arc2_val |-> 0,
                        center_override |-> Some(<<"A", "B", "C">>),
                        last_extra1_val |-> -1, last_extra2_val |-> -1,
                        ext_outer |-> 0, ext_inner |-> 0,
                        ext_extra1 |-> 0, ext_extra2 |-> 0,
                        label |-> None, extra_label1 |-> None,
                        extra_label2 |-> None]} |->
              Redraw(fresh)])

NewRing(fg_outer, fg_inner, bg, w_outer, w_inner) ==
    Strict([fresh \in {[display_size |-> RING_DISPLAY_SIZE,
                        bg |-> bg, fg_outer |-> fg_outer, fg_inner |-> fg_inner,
                        w_outer |-> w_outer, w_inner |-> w_inner,
                        outer_val |-> 0, inner_val |-> 0,
                        extra_arc1_val |-> 0, extra_arc2_val |-> 0,
                        center_override |-> None,
                        last_extra1_val |-> -1, last_extra2_val |-> -1,
                        ext_outer |-> 0, ext_inner |-> 0,
                        ext_extra1 |-> 0, ext_extra2 |-> 0,
                        label |-> None, extra_label1 |-> None,
                        extra_label2 |-> None]} |->
              Redraw(fresh)])

\* Mutant of RingSetValues: new values drop the center override.
RingSetValuesDropsCenter(ring, outer_v, inner_v) ==
    Strict([r1 \in {[ring EXCEPT !.outer_val = ClipValue(outer_v),
                                 !.inner_val = ClipValue(inner_v),
                                 !.center_override = None]} |->
      Strict([r2 \in {UpdateExtents(r1)} |-> UpdateLabel(r2)])])

RingSetValues(ring, outer_v, inner_v) ==
    Strict([r1 \in {[ring EXCEPT !.outer_val = ClipValue(outer_v),
                                 !.inner_val = ClipValue(inner_v)]} |->
      Strict([r2 \in {UpdateExtents(r1)} |-> UpdateLabel(r2)])])

RingSetExtraArcs(ring, val1, val2) ==
    Strict([r1 \in {[ring EXCEPT !.extra_arc1_val = ClipValue(val1),
                                 !.extra_arc2_val = ClipValue(val2)]} |->
              UpdateExtents(r1)])

\* set_center_text: an empty text clears the override.
RingSetCenterText(ring, text) ==
    Strict([r1 \in {[ring EXCEPT !.center_override =
                        IF text # None /\ The(text) # <<>> THEN text
                        ELSE None]} |->
              UpdateLabel(r1)])

\* restyle: the fields are stored first, then the ring is redrawn.
Restyle(ring, fg_outer, fg_inner, bg, w_outer, w_inner) ==
    Strict([styled \in {[ring EXCEPT
              !.fg_outer = IF validate_color(fg_outer) THEN fg_outer ELSE @,
              !.fg_inner = IF validate_color(fg_inner) THEN fg_inner ELSE @,
              !.w_outer = w_outer,
              !.w_inner = w_inner,
              !.bg = IF validate_color(bg) THEN bg ELSE @]} |->
              Redraw(styled)])

(***************************************************************************)
(* The screen: the per-cell widgets and caches of PatchDisplayScreen.  An   *)
(* operation maps a screen record S to the screen after it.                 *)
(***************************************************************************)
C_BLACK == <<"b","l","a","c","k">>
C_WHITE == <<"w","h","i","t","e">>
C_606060 == <<"#","6","0","6","0","6","0">>
C_FFFFFF == <<"#","f","f","f","f","f","f">>
C_000000 == <<"#","0","0","0","0","0","0">>

\* _build_ui and __init__: every label packed, white text on black,
\* empty text, empty caches, no ring, no bar, no widget call made yet.
InitScreen ==
    [label_vars   |-> [a \in Grid |-> <<>>],
     labels       |-> [a \in Grid |->
                         [fg |-> C_WHITE, bg |-> C_BLACK,
                          anchor |-> IF a[1] \in {2, 6} THEN "n" ELSE "w",
                          managed |-> TRUE]],
     cell_frames  |-> [a \in Grid |-> [bg |-> C_BLACK]],
     last_text    |-> [a \in Grid |-> None],
     last_fg      |-> [a \in Grid |-> None],
     last_bg      |-> [a \in Grid |-> None],
     last_anchor  |-> [a \in Grid |-> None],
     ring_holders |-> [a \in Grid |-> FALSE],
     rings        |-> [a \in Grid |-> None],
     bar_holders  |-> [a \in Grid |-> FALSE],
     bars         |-> [a \in Grid |-> None],
     calls        |-> <<>>]

\* A widget call made on behalf of cell a, recorded in S.calls: the calls the
\* entry being applied has made so far, in order.
Call(S, name, a) == [S EXCEPT !.calls = Append(@, <<name, a[1], a[2]>>)]

A_L == {<<"l">>, <<"l","e","f","t">>}
A_C == {<<"c">>, <<"c","e","n","t","e","r">>, <<"c","e","n","t","r","e">>,
        <<"m","i","d">>, <<"m","i","d","d","l","e">>}
A_R == {<<"r">>, <<"r","i","g","h","t">>}

\* _map_anchor of an Optional[str]
map_anchor(align) ==
    IF align = None \/ The(align) = <<>> THEN "w"
    ELSE LET a == Lower(Strip(The(align)))
         IN  IF a \in A_L THEN "w"
             ELSE IF a \in A_C THEN "center"
             ELSE IF a \in A_R THEN "e"
             ELSE "w"

\* set_cell, lines 1042-1061: a non-empty text tears the ring and the bar
\* down and packs the label again.
SetCellTeardown(S, a) ==
    Strict([S1 \in {IF S.rings[a] # None
                    THEN [(IF S.ring_holders[a]
                           THEN Call(S, "ring_holder.destroy", a) ELSE S)
                            EXCEPT !.rings[a] = None, !.ring_holders[a] = FALSE]
                    ELSE S} |->
      Strict([S2 \in {IF S1.bar_holders[a]
                      THEN [Call(S1, "bar_holder.destroy", a)
                              EXCEPT !.bar_holders[a] = FALSE,
                                     !.bars[a] = None]
                      ELSE S1} |->
        IF ~S2.labels[a].managed
        THEN [Call(S2, "lbl.pack", a) EXCEPT !.labels[a].managed = TRUE]
        ELSE S2])])

\* set_cell, lines 1063-1093: the deduplicated label writes.
\* Mutant of SetCellText: the text is written whether or not it is the
\* cached one.
SetCellTextNoDedupe(S, a, text) ==
    IF text # None
    THEN [Call(S, "vars.set", a)
            EXCEPT !.label_vars[a] = The(text), !.last_text[a] = text]
    ELSE S

SetCellText(S, a, text) ==
    IF text # None /\ text # S.last_text[a]
    THEN [Call(S, "vars.set", a)
            EXCEPT !.label_vars[a] = The(text), !.last_text[a] = text]
    ELSE S

\* Mutant of SetCellFg: a refused fg is cached all the same.
SetCellFgCachesRefused(S, a, fg) ==
    IF fg # None /\ The(fg) # <<>> /\ fg # S.last_fg[a]
       /\ validate_color(The(fg))
    THEN IF TkAcceptsColor(The(fg))
         THEN [Call(S, "lbl.configure(fg)", a)
                 EXCEPT !.labels[a].fg = The(fg), !.last_fg[a] = fg]
         ELSE [Call(S, "lbl.configure(fg) refused", a)
                 EXCEPT !.last_fg[a] = fg]
    ELSE S

\* Lines 1069-1075: a write the label refuses raises tk.TclError before the
\* cache is assigned; the call is recorded as refused.
SetCellFg(S, a, fg) ==
    IF fg # None /\ The(fg) # <<>> /\ fg # S.last_fg[a]
       /\ validate_color(The(fg))
    THEN IF TkAcceptsColor(The(fg))
         THEN [Call(S, "lbl.configure(fg)", a)
                 EXCEPT !.labels[a].fg = The(fg), !.last_fg[a] = fg]
         ELSE Call(S, "lbl.configure(fg) refused", a)
    ELSE S

\* Mutant of SetCellBg: the cell frames of the whole row are configured.
SetCellBgWholeRow(S, a, bg) ==
    IF bg # None /\ The(bg) # <<>> /\ bg # S.last_bg[a]
       /\ validate_color(The(bg)) /\ TkAcceptsColor(The(bg))
    THEN [Call(S, "lbl.configure(bg)", a)
            EXCEPT !.labels[a].bg = The(bg),
                   !.cell_frames = [x \in Grid |->
                                      IF x[1] = a[1] THEN [bg |-> The(bg)]
                                      ELSE S.cell_frames[x]],
                   !.last_bg[a] = bg]
    ELSE S

\* The label and the cell frame take a colour through the same option
\* parser of the toolkit.
LabelAcceptsBg(color) == TkAcceptsColor(color)
\* Mutant of FrameAcceptsBg: the cell frame refuses every colour.
FrameAcceptsBgNever(color) == FALSE
FrameAcceptsBg(color) == TkAcceptsColor(color)

\* Lines 1077-1084: the label is configured, then the cell frame, then the
\* cache is assigned; tk.TclError from either write skips what follows.
SetCellBg(S, a, bg) ==
    IF bg # None /\ The(bg) # <<>> /\ bg # S.last_bg[a]
       /\ validate_color(The(bg))
    THEN IF ~LabelAcceptsBg(The(bg))
         THEN Call(S, "lbl.configure(bg) refused", a)
         ELSE IF ~FrameAcceptsBg(The(bg))
         THEN [Call(S, "cell.configure(bg) refused", a)
                 EXCEPT !.labels[a].bg = The(bg)]
         ELSE [Call(S, "lbl.configure(bg)", a)
                 EXCEPT !.labels[a].bg = The(bg),
                        !.cell_frames[a].bg = The(bg),
                        !.last_bg[a] = bg]
    ELSE S

SetCellAnchor(S, a, align) ==
    LET anchor == map_anchor(align)
    IN  IF align # None /\ Some(anchor) # S.last_anchor[a]
        THEN [Call(S, "lbl.configure(anchor)", a)
                EXCEPT !.labels[a].anchor = anchor,
                       !.last_anchor[a] = Some(anchor)]
        ELSE S

SetCellWrites(S, a, text, fg, bg, align) ==
    Strict([S1 \in {SetCellText(S, a, text)} |->
      Strict([S2 \in {SetCellFg(S1, a, fg)} |->
        Strict([S3 \in {SetCellBg(S2, a, bg)} |->
          SetCellAnchor(S3, a, align)])])])

\* Mutant of set_cell: the ring and the bar are torn down whatever the text.
set_cell_AlwaysTeardown(S, r, c, text, fg, bg, align) ==
    IF ~InGrid(r, c) THEN S
    ELSE Strict([S1 \in {SetCellTeardown(S, <<r, c>>)} |->
                   SetCellWrites(S1, <<r, c>>, text, fg, bg, align)])

\* Mutant of set_cell: the label is written before the ring and the bar are
\* torn down.
set_cell_WritesFirst(S, r, c, text, fg, bg, align) ==
    IF ~InGrid(r, c) THEN S
    ELSE Strict([S1 \in {SetCellWrites(S, <<r, c>>, text, fg, bg, align)} |->
                   IF text # None /\ The(text) # <<>>
                   THEN SetCellTeardown(S1, <<r, c>>) ELSE S1])

set_cell(S, r, c, text, fg, bg, align) ==
    IF ~InGrid(r, c) THEN S
    ELSE Strict([S1 \in {IF text # None /\ The(text) # <<>>
                         THEN SetCellTeardown(S, <<r, c>>) ELSE S} |->
                   SetCellWrites(S1, <<r, c>>, text, fg, bg, align)])

\* Mutant of set_bar_value: an address outside the grid wraps around, as a
\* negative index of a Python list does.
set_bar_value_Wrap(S, r, c, value) ==
    Strict([rr \in {r % DEFAULT_ROWS} |->
      Strict([a \in {<<rr, c % COLS_PER_ROW[rr + 1]>>} |->
        IF rr \notin BAR_ROWS THEN S
        ELSE [Call(S, "bar.set_value", a)
                EXCEPT !.labels[a].managed = FALSE,
                       !.bar_holders[a] = TRUE,
                       !.bars[a] = Some(BarSetValue(NewBar, value))]])])

\* _ensure_bars
ensure_bars(S, r, c) ==
    IF ~InGrid(r, c) THEN S
    ELSE IF r \notin BAR_ROWS THEN S
    ELSE Strict([S1 \in {IF S.labels[<<r, c>>].managed
                         THEN [Call(S, "lbl.forget", <<r, c>>)
                                 EXCEPT !.labels[<<r, c>>].managed = FALSE]
                         ELSE S} |->
           IF ~S1.bar_holders[<<r, c>>]
           THEN [Call(S1, "HorizontalBar", <<r, c>>)
                   EXCEPT !.bar_holders[<<r, c>>] = TRUE,
                          !.bars[<<r, c>>] = Some(NewBar)]
           ELSE S1])

set_bar_value(S, r, c, value) ==
    IF ~InGrid(r, c) THEN S
    ELSE IF r \notin BAR_ROWS THEN S
    ELSE Strict([S1 \in {ensure_bars(S, r, c)} |->
           IF S1.bars[<<r, c>>] # None
           THEN [Call(S1, "bar.set_value", <<r, c>>)
                   EXCEPT !.bars[<<r, c>>] = Some(BarSetValue(The(@), value))]
           ELSE S1])

\* _ensure_ring, lines 954-962: the label is forgotten if it is managed and
\* the holder frame is placed if there is none.
EnsureRingHolder(S, a) ==
    Strict([S1 \in {IF S.labels[a].managed
                    THEN [Call(S, "lbl.forget", a)
                            EXCEPT !.labels[a].managed = FALSE]
                    ELSE S} |->
      IF ~S1.ring_holders[a]
      THEN [Call(S1, "ring_holder.place", a) EXCEPT !.ring_holders[a] = TRUE]
      ELSE S1])

\* The ring operations return [s |-> screen, raised |-> whether tk.TclError
\* left the operation]: nothing between the widget call and the timer
\* callback catches it.
\* _ensure_ring
ensure_ring(S, r, c, fg_out, fg_in, bg, size_px, w_out, w_in) ==
    IF ~InGrid(r, c) THEN [s |-> S, raised |-> FALSE]
    ELSE Strict([S1 \in {EnsureRingHolder(S, <<r, c>>)} |->
           IF S1.rings[<<r, c>>] = None
           THEN IF NewRingRaises(fg_out, fg_in, bg)
                THEN [s |-> Call(S1, "DualRing", <<r, c>>), raised |-> TRUE]
                ELSE [s |-> [Call(S1, "DualRing", <<r, c>>)
                               EXCEPT !.rings[<<r, c>>] =
                                Some(NewRing(fg_out, fg_in, bg, w_out, w_in))],
                      raised |-> FALSE]
           ELSE Strict([ring \in {Restyle(The(S1.rings[<<r, c>>]), fg_out,
                                          fg_in, bg, w_out, w_in)} |->
                  [s |-> [Call(S1, "ring.restyle", <<r, c>>)
                            EXCEPT !.rings[<<r, c>>] = Some(ring)],
                   raised |-> RedrawRaises(ring)]])])

set_ring_style(S, r, c, fg_out, fg_in, bg, size_px, w_out, w_in) ==
    ensure_ring(S, r, c, fg_out, fg_in, bg, size_px, w_out, w_in)

\* Mutant of RingOrDefault: the default outer colour is white.
RingOrDefaultWhite(S, r, c) ==
    IF S.rings[<<r, c>>] = None
    THEN ensure_ring(S, r, c, C_FFFFFF, C_FFFFFF, C_000000, 280,
                     RING_OUTER_ARC_WIDTH, RING_INNER_ARC_WIDTH)
    ELSE [s |-> S, raised |-> FALSE]

\* The ring of cell a, created with the default style when there is none
\* (lines 984-987, 996-999, 1014-1017).
RingOrDefault(S, r, c) ==
    IF S.rings[<<r, c>>] = None
    THEN ensure_ring(S, r, c, C_606060, C_FFFFFF, C_000000, 280,
                     RING_OUTER_ARC_WIDTH, RING_INNER_ARC_WIDTH)
    ELSE [s |-> S, raised |-> FALSE]

set_ring_value(S, r, c, outer, inner) ==
    IF ~InGrid(r, c) THEN [s |-> S, raised |-> FALSE]
    ELSE Strict([E \in {RingOrDefault(S, r, c)} |->
           IF E.raised THEN E
           ELSE IF E.s.rings[<<r, c>>] # None
           THEN [s |-> [Call(E.s, "ring.set_values", <<r, c>>)
                          EXCEPT !.rings[<<r, c>>] =
                            Some(RingSetValues(The(@), outer, inner))],
                 raised |-> FALSE]
           ELSE E])

set_ring_text(S, r, c, text) ==
    IF ~InGrid(r, c) THEN [s |-> S, raised |-> FALSE]
    ELSE Strict([E \in {RingOrDefault(S, r, c)} |->
           IF E.raised THEN E
           ELSE IF E.s.rings[<<r, c>>] # None
           THEN [s |-> [Call(E.s, "ring.set_center_text", <<r, c>>)
                          EXCEPT !.rings[<<r, c>>] =
                            Some(RingSetCenterText(The(@), text))],
                 raised |-> FALSE]
           ELSE E])

set_ring_all(S, r, c, outer, inner, fg_out, fg_in, bg, size_px, w_out, w_in) ==
    Strict([E \in {ensure_ring(S, r, c, fg_out, fg_in, bg, size_px, w_out,
                               w_in)} |->
              IF E.raised THEN E
              ELSE set_ring_value(E.s, r, c, outer, inner)])

set_ring_extra_arcs(S, r, c, val1, val2) ==
    IF ~InGrid(r, c) THEN [s |-> S, raised |-> FALSE]
    ELSE Strict([E \in {RingOrDefault(S, r, c)} |->
           IF E.raised THEN E
           ELSE IF E.s.rings[<<r, c>>] # None
           THEN [s |-> [Call(E.s, "ring.set_extra_arcs", <<r, c>>)
                          EXCEPT !.rings[<<r, c>>] =
                            Some(RingSetExtraArcs(The(@), val1, val2))],
                 raised |-> FALSE]
           ELSE E])

(***************************************************************************)
(* The datagrams the sender may emit, as the received text.                *)
(***************************************************************************)
\* 0 0 #ffffff #000000 left HELLO
L_SET_HELLO ==
    <<"0"," ","0"," ","#","f","f","f","f","f","f"," ","#","0","0","0","0",
      "0","0"," ","l","e","f","t"," ","H","E","L","L","O">>
\* BG 0 0 #123456
L_BG_123456 ==
    <<"B","G"," ","0"," ","0"," ","#","1","2","3","4","5","6">>
\* bg 0 0 #abc;
L_BG_ABC ==
    <<"b","g"," ","0"," ","0"," ","#","a","b","c",";">>
\* ALIGN 0 0 right
L_ALIGN_RIGHT ==
    <<"A","L","I","G","N"," ","0"," ","0"," ","r","i","g","h","t">>
\* 0 0 #fff #000 WORLD
L_SET_WORLD ==
    <<"0"," ","0"," ","#","f","f","f"," ","#","0","0","0"," ","W","O","R",
      "L","D">>
\* BG 0 9 #123456
L_BG_OUTSIDE ==
    <<"B","G"," ","0"," ","9"," ","#","1","2","3","4","5","6">>
\* BAR 3 x 1
L_BOGUS ==
    <<"B","A","R"," ","3"," ","x"," ","1">>
\* BAR 3 0 9999
L_BAR_9999 ==
    <<"B","A","R"," ","3"," ","0"," ","9","9","9","9">>
\* BAR 3 0 -5
L_BAR_NEG ==
    <<"B","A","R"," ","3"," ","0"," ","-","5">>
\* RINGVAL 0 3 64 32
L_RINGVAL ==
    <<"R","I","N","G","V","A","L"," ","0"," ","3"," ","6","4"," ","3","2">>
\* RING 0 3 #aaa #bbb #000 280 10 27
L_RING ==
    <<"R","I","N","G"," ","0"," ","3"," ","#","a","a","a"," ","#","b","b",
      "b"," ","#","0","0","0"," ","2","8","0"," ","1","0"," ","2","7">>
\* RING 0 3 #zzz #bbb #000 280 10 27
L_RING_BAD ==
    <<"R","I","N","G"," ","0"," ","3"," ","#","z","z","z"," ","#","b","b",
      "b"," ","#","0","0","0"," ","2","8","0"," ","1","0"," ","2","7">>
\* ARC 0 3 9999 -5
L_ARC ==
    <<"A","R","C"," ","0"," ","3"," ","9","9","9","9"," ","-","5">>
\* 0 3 #fff #000 center ABC
L_SET_ABC ==
    <<"0"," ","3"," ","#","f","f","f"," ","#","0","0","0"," ","c","e","n",
      "t","e","r"," ","A","B","C">>
\* RINGSET 0 3 200 -1 #aaa #bbb #000 280 10 27
L_RINGSET ==
    <<"R","I","N","G","S","E","T"," ","0"," ","3"," ","2","0","0"," ","-",
      "1"," ","#","a","a","a"," ","#","b","b","b"," ","#","0","0","0"," ",
      "2","8","0"," ","1","0"," ","2","7">>

\* BG 0 1 #123456
L_BG_01 ==
    <<"B","G"," ","0"," ","1"," ","#","1","2","3","4","5","6">>

\* 4 0 #fff #000 left X
L_SET_OUTSIDE ==
    <<"4"," ","0"," ","#","f","f","f"," ","#","0","0","0"," ","l","e","f",
      "t"," ","X">>
\* ALIGN 11 0 right
L_ALIGN_OUTSIDE ==
    <<"A","L","I","G","N"," ","1","1"," ","0"," ","r","i","g","h","t">>
\* BAR 3 8 50
L_BAR_OUTSIDE ==
    <<"B","A","R"," ","3"," ","8"," ","5","0">>
\* BAR 8 0 50
L_BAR_ROW8 ==
    <<"B","A","R"," ","8"," ","0"," ","5","0">>
\* RING 4 0 #aaa #bbb #000 280 10 27
L_RING_OUTSIDE ==
    <<"R","I","N","G"," ","4"," ","0"," ","#","a","a","a"," ","#","b","b",
      "b"," ","#","0","0","0"," ","2","8","0"," ","1","0"," ","2","7">>
\* RINGVAL 0 11 64 32
L_RINGVAL_OUTSIDE ==
    <<"R","I","N","G","V","A","L"," ","0"," ","1","1"," ","6","4"," ","3",
      "2">>
\* RINGSET 9 3 1 2 #aaa #bbb #000 280 10 27
L_RINGSET_OUTSIDE ==
    <<"R","I","N","G","S","E","T"," ","9"," ","3"," ","1"," ","2"," ","#",
      "a","a","a"," ","#","b","b","b"," ","#","0","0","0"," ","2","8","0",
      " ","1","0"," ","2","7">>
\* ARC 0 -1 5 5
L_ARC_OUTSIDE ==
    <<"A","R","C"," ","0"," ","-","1"," ","5"," ","5">>
\* 1 2 #fff #000 left X
L_SET_12 ==
    <<"1"," ","2"," ","#","f","f","f"," ","#","0","0","0"," ","l","e","f",
      "t"," ","X">>
\* BG 1 2 #abc
L_BG_12 ==
    <<"B","G"," ","1"," ","2"," ","#","a","b","c">>
\* ALIGN 1 2 right
L_ALIGN_12 ==
    <<"A","L","I","G","N"," ","1"," ","2"," ","r","i","g","h","t">>
\* BAR 3 5 7
L_BAR_35 ==
    <<"B","A","R"," ","3"," ","5"," ","7">>
\* RING 1 2 #aaa #bbb #000 280 10 27
L_RING_12 ==
    <<"R","I","N","G"," ","1"," ","2"," ","#","a","a","a"," ","#","b","b",
      "b"," ","#","0","0","0"," ","2","8","0"," ","1","0"," ","2","7">>
\* RINGVAL 1 2 10 20
L_RINGVAL_12 ==
    <<"R","I","N","G","V","A","L"," ","1"," ","2"," ","1","0"," ","2","0">>
\* RINGSET 1 2 1 2 #aaa #bbb #000 280 10 27
L_RINGSET_12 ==
    <<"R","I","N","G","S","E","T"," ","1"," ","2"," ","1"," ","2"," ","#",
      "a","a","a"," ","#","b","b","b"," ","#","0","0","0"," ","2","8","0",
      " ","1","0"," ","2","7">>
\* ARC 1 2 3 4
L_ARC_12 ==
    <<"A","R","C"," ","1"," ","2"," ","3"," ","4">>
\* RINGVAL 0 1 64 32
L_RINGVAL_01 ==
    <<"R","I","N","G","V","A","L"," ","0"," ","1"," ","6","4"," ","3","2">>
\* RING 0 1 #aaabbbccc #bbb #000 280 10 27
L_RING_LONG ==
    <<"R","I","N","G"," ","0"," ","1"," ","#","a","a","a","b","b","b","c",
      "c","c"," ","#","b","b","b"," ","#","0","0","0"," ","2","8","0"," ",
      "1","0"," ","2","7">>
\* RING 0 1 #aaa #12 #000 280 10 27
L_RING_SHORT ==
    <<"R","I","N","G"," ","0"," ","1"," ","#","a","a","a"," ","#","1","2",
      " ","#","0","0","0"," ","2","8","0"," ","1","0"," ","2","7">>
\* BG 1 0 #12
L_BG_SHORT ==
    <<"B","G"," ","1"," ","0"," ","#","1","2">>
\* 0 1 #ggg #000 center ABC
L_SET_BADFG ==
    <<"0"," ","1"," ","#","g","g","g"," ","#","0","0","0"," ","c","e","n",
      "t","e","r"," ","A","B","C">>
\* ALIGN 0 0 bogus
L_ALIGN_BOGUS ==
    <<"A","L","I","G","N"," ","0"," ","0"," ","b","o","g","u","s">>
\* 0 0 #fff #000 diagonal WORLD
L_SET_DIAG ==
    <<"0"," ","0"," ","#","f","f","f"," ","#","0","0","0"," ","d","i","a",
      "g","o","n","a","l"," ","W","O","R","L","D">>

\* RINGVAL 0 1 64 32 ABC
L_RINGVAL_TEXT ==
    <<"R","I","N","G","V","A","L"," ","0"," ","1"," ","6","4"," ","3","2",
      " ","A","B","C">>
\* RING 0 1 #aaa #bbb #000 280 10 27
L_RING_01 ==
    <<"R","I","N","G"," ","0"," ","1"," ","#","a","a","a"," ","#","b","b",
      "b"," ","#","0","0","0"," ","2","8","0"," ","1","0"," ","2","7">>
\* ARC 0 1 5 7
L_ARC_01 ==
    <<"A","R","C"," ","0"," ","1"," ","5"," ","7">>
\* BG 1 0 #12345678
L_BG_REFUSED ==
    <<"B","G"," ","1"," ","0"," ","#","1","2","3","4","5","6","7","8">>
\* 0 1 foo #000 left T
L_SET_REFUSED ==
    <<"0"," ","1"," ","f","o","o"," ","#","0","0","0"," ","l","e","f","t",
      " ","T">>
\* BG 1 0 #abc
L_BG_10_ABC ==
    <<"B","G"," ","1"," ","0"," ","#","a","b","c">>
\* FOO 0 0 #fff #000 X
L_UNKNOWN_HEAD ==
    <<"F","O","O"," ","0"," ","0"," ","#","f","f","f"," ","#","0","0","0",
      " ","X">>
\* HELLO 1 2
L_UNKNOWN_SHORT ==
    <<"H","E","L","L","O"," ","1"," ","2">>
\* BAR 3 0
L_BAR_SHORT ==
    <<"B","A","R"," ","3"," ","0">>
\* RING 0 1 #aaa #bbb #000 280
L_RING_FEW ==
    <<"R","I","N","G"," ","0"," ","1"," ","#","a","a","a"," ","#","b","b",
      "b"," ","#","0","0","0"," ","2","8","0">>
\* 0 x #fff #000 T
L_SET_NONINT ==
    <<"0"," ","x"," ","#","f","f","f"," ","#","0","0","0"," ","T">>
\* 0 0 #fff #000 left HI;
L_SET_SEMI1 ==
    <<"0"," ","0"," ","#","f","f","f"," ","#","0","0","0"," ","l","e","f",
      "t"," ","H","I",";">>
\* 0 0 #fff #000 left YO;;
L_SET_SEMI2 ==
    <<"0"," ","0"," ","#","f","f","f"," ","#","0","0","0"," ","l","e","f",
      "t"," ","Y","O",";",";">>
\* 0 0 #fff #000 left
L_SET_LEFT5 ==
    <<"0"," ","0"," ","#","f","f","f"," ","#","0","0","0"," ","l","e","f",
      "t">>

\* ALIGN 1 0 right
L_ALIGN_10 ==
    <<"A","L","I","G","N"," ","1"," ","0"," ","r","i","g","h","t">>
\* 0 1 #fff #000 left ;;
L_SET_EMPTY_10 ==
    <<"0"," ","1"," ","#","f","f","f"," ","#","0","0","0"," ","l","e","f",
      "t"," ",";",";">>
\* BAR 3 0 5
L_BAR_30 ==
    <<"B","A","R"," ","3"," ","0"," ","5">>
\* BG 3 0 #abc
L_BG_30 ==
    <<"B","G"," ","3"," ","0"," ","#","a","b","c">>
\* RINGVAL 0 1 10 20 ;;
L_RINGVAL_EMPTY ==
    <<"R","I","N","G","V","A","L"," ","0"," ","1"," ","1","0"," ","2","0",
      " ",";",";">>
\* 0 1 #fff #000 left T
L_SET_10 ==
    <<"0"," ","1"," ","#","f","f","f"," ","#","0","0","0"," ","l","e","f",
      "t"," ","T">>
\* RINGVAL 0 1 v w and ARC 0 1 v w for a stored value v and the next one.
L_RINGVAL_SWEEP(v) ==
    H_RINGVAL \o <<" ", "0", " ", "1", " ">> \o IntStr(v) \o <<" ">>
        \o IntStr(Min(127, v + 1))
L_ARC_SWEEP(v) ==
    H_ARC \o <<" ", "0", " ", "1", " ">> \o IntStr(v) \o <<" ">>
        \o IntStr(Min(127, v + 1))

\* The lines of a feed: the traffic of one sender scenario.
FeedLines(f) ==
    IF f = "text"
    THEN {L_SET_HELLO, L_BG_123456, L_BG_ABC, L_ALIGN_RIGHT,
          L_SET_WORLD, L_BG_OUTSIDE, L_BOGUS}
    ELSE IF f = "bar"
    THEN {L_BAR_9999, L_BAR_NEG, L_RINGVAL, L_RING, L_RING_BAD,
          L_ARC, L_SET_ABC, L_RINGSET}
    ELSE IF f = "scenario1"
    THEN {L_SET_HELLO, L_BG_123456, L_ALIGN_RIGHT}
    ELSE IF f = "flood"
    THEN {L_SET_HELLO, L_BG_123456, L_BG_01}
    ELSE IF f = "burst"
    THEN {L_SET_HELLO, L_BG_123456, L_BG_01, L_RINGVAL, L_RING_BAD}
    ELSE IF f = "outside_text"
    THEN {L_SET_OUTSIDE, L_BG_OUTSIDE, L_ALIGN_OUTSIDE, L_BAR_OUTSIDE,
          L_BAR_ROW8, L_SET_HELLO}
    ELSE IF f = "outside_ring"
    THEN {L_RING_OUTSIDE, L_RINGVAL_OUTSIDE, L_RINGSET_OUTSIDE,
          L_ARC_OUTSIDE, L_RINGVAL}
    ELSE IF f = "order_text"
    THEN {L_SET_12, L_BG_12, L_ALIGN_12, L_BAR_35}
    ELSE IF f = "order_ring"
    THEN {L_RING_12, L_RINGVAL_12, L_RINGSET_12, L_ARC_12}
    ELSE IF f = "ring"
    THEN {L_RINGVAL_01, L_RING_LONG, L_RING_SHORT, L_BG_SHORT, L_SET_BADFG}
    ELSE IF f = "align"
    THEN {L_ALIGN_RIGHT, L_ALIGN_BOGUS, L_SET_DIAG}
    ELSE IF f = "label"
    THEN {L_RINGVAL_TEXT, L_RINGVAL_01, L_RING_01, L_ARC_01}
    ELSE IF f = "refuse"
    THEN {L_BG_REFUSED, L_SET_REFUSED, L_BG_10_ABC}
    ELSE IF f = "keep"
    THEN {L_RINGVAL_TEXT, L_BG_10_ABC, L_ALIGN_10, L_SET_EMPTY_10, L_BAR_30,
          L_BG_30}
    ELSE IF f = "override"
    THEN {L_RINGVAL_TEXT, L_RINGVAL_SWEEP(10), L_RINGVAL_EMPTY, L_ARC_01,
          L_SET_10}
    ELSE IF f = "rebuild"
    THEN {L_RING_01, L_RINGVAL_TEXT, L_ARC_01, L_SET_10, L_RINGVAL_01}
    ELSE IF f = "reorder"
    THEN {L_RING_BAD, L_RING_01, L_RINGVAL_12, L_SET_HELLO}
    ELSE IF f = "malformed"
    THEN {L_BOGUS, L_UNKNOWN_HEAD, L_UNKNOWN_SHORT, L_BAR_SHORT, L_RING_FEW,
          L_SET_NONINT, L_SET_HELLO}
    ELSE IF f = "semi"
    THEN {L_SET_SEMI1, L_SET_SEMI2, L_SET_LEFT5}
    ELSE IF f = "interleave"
    THEN {L_SET_HELLO, L_BG_123456, L_BG_01, L_BOGUS, L_RING_BAD}
    ELSE IF f = "sock"
    THEN {L_SET_HELLO, L_BG_123456, L_BOGUS}
    ELSE IF f = "extent"
    THEN {L_RINGVAL_SWEEP(v) : v \in 0..127} \cup {L_ARC_SWEEP(v) : v \in 0..127}
    ELSE {}

(***************************************************************************)
(* The coalescer: pending_latest is a dict, iterated in insertion order;   *)
(* it is a sequence of entries [key |-> <<class, r, c>>, val |-> payload].  *)
(***************************************************************************)
KeyIndex(pending, key) ==
    IF \E i \in 1..Len(pending) : pending[i].key = key
    THEN CHOOSE i \in 1..Len(pending) : pending[i].key = key
    ELSE 0

\* Mutant of PendingPut: the first payload of a key is kept.
PendingPutKeepFirst(pending, key, val) ==
    IF KeyIndex(pending, key) > 0 THEN pending
    ELSE Append(pending, [key |-> key, val |-> val])

\* pending_latest[key] = val: an existing key keeps its place.
PendingPut(pending, key, val) ==
    IF KeyIndex(pending, key) > 0
    THEN [pending EXCEPT ![KeyIndex(pending, key)].val = val]
    ELSE Append(pending, [key |-> key, val |-> val])

\* Mutant of PendingDel: the applied entry stays in the map.
PendingDelNothing(pending, key) == pending

\* del pending_latest[key]
PendingDel(pending, key) ==
    LET i == KeyIndex(pending, key)
    IN  IF i = 0 THEN pending
        ELSE SubSeq(pending, 1, i - 1) \o SubSeq(pending, i + 1, Len(pending))

\* Lines 798-830: the entry a dequeued message is stored as.
EntryOf(msg) ==
    LET kind == msg[1]
        r == msg[2]
        c == msg[3]
    IN  IF kind = "BAR_VALUE"
        THEN [key |-> <<"BAR", r, c>>, val |-> msg[4]]
        ELSE IF kind = "BG_CELL"
        THEN [key |-> <<"BG", r, c>>, val |-> msg[4]]
        ELSE IF kind = "ALIGN_CELL"
        THEN [key |-> <<"ALIGN", r, c>>, val |-> msg[4]]
        ELSE IF kind = "SET"
        THEN [key |-> <<"SET", r, c>>,
              val |-> <<msg[7], msg[4], msg[5], msg[6]>>]
        ELSE IF kind = "RING_STYLE"
        THEN [key |-> <<"RING_STYLE", r, c>>,
              val |-> <<msg[4], msg[5], msg[6], msg[7], msg[8], msg[9]>>]
        ELSE IF kind = "RING_VALUE"
        THEN [key |-> <<"RING_VALUE", r, c>>,
              val |-> <<msg[4], msg[5], msg[6]>>]
        ELSE IF kind = "RING_SET"
        THEN [key |-> <<"RING_SET", r, c>>,
              val |-> <<msg[4], msg[5], msg[6], msg[7], msg[8], msg[9],
                        msg[10], msg[11]>>]
        ELSE [key |-> <<"ARC", r, c>>, val |-> <<msg[4], msg[5]>>]

\* Lines 792-830: the drain loop, the whole queue into the map.
RECURSIVE Drain(_, _)
Drain(pending, q) ==
    IF q = <<>> THEN pending
    ELSE Strict([p \in {PendingPut(pending, EntryOf(Head(q)).key,
                                   EntryOf(Head(q)).val)} |->
                   Drain(p, Tail(q))])

\* Mutant of CLASS_ORDER: the value loop runs before the style loop.
CLASS_ORDER_ValueFirst ==
    <<"BG", "ALIGN", "BAR", "RING_SET", "RING_VALUE", "RING_STYLE", "ARC", "SET">>

\* Mutant of CLASS_ORDER: the SET loop runs before the ring loops.
CLASS_ORDER_SetBeforeRings ==
    <<"BG", "ALIGN", "BAR", "SET", "RING_SET", "RING_STYLE", "RING_VALUE", "ARC">>

\* The order of the eight apply loops of _drain_and_apply.
CLASS_ORDER ==
    <<"BG", "ALIGN", "BAR", "RING_SET", "RING_STYLE", "RING_VALUE", "ARC", "SET">>

NotRaised(S) == [s |-> S, raised |-> FALSE]

\* The body of an apply loop for one entry of its class.
ApplyEntry(S, key, val) ==
    LET class == key[1]
        r == key[2]
        c == key[3]
    IN  IF class = "BG"
        THEN NotRaised(set_cell(S, r, c, None, None, Some(val), None))
        ELSE IF class = "ALIGN"
        THEN NotRaised(set_cell(S, r, c, None, None, None, Some(val)))
        ELSE IF class = "BAR"
        THEN NotRaised(set_bar_value(S, r, c, val))
        ELSE IF class = "RING_SET"
        THEN set_ring_all(S, r, c, val[1], val[2], val[3], val[4], val[5],
                          val[6], val[7], val[8])
        ELSE IF class = "RING_STYLE"
        THEN set_ring_style(S, r, c, val[1], val[2], val[3], val[4], val[5],
                            val[6])
        ELSE IF class = "RING_VALUE"
        THEN Strict([E \in {set_ring_value(S, r, c, val[1], val[2])} |->
               IF E.raised \/ val[3] = None THEN E
               ELSE set_ring_text(E.s, r, c, val[3])])
        ELSE IF class = "ARC"
        THEN set_ring_extra_arcs(S, r, c, val[1], val[2])
        ELSE NotRaised(set_cell(S, r, c, Some(val[1]), Some(val[2]),
                                Some(val[3]), val[4]))

\* Mutant of ClassLoop: an entry that makes no widget call is not counted.
RECURSIVE ClassLoopFreeNoops(_, _, _, _)
ClassLoopFreeNoops(T, snap, i, class) ==
    IF i > Len(snap) \/ T.raised THEN T
    ELSE IF T.applied >= MAX_APPLIES_PER_TICK THEN T
    ELSE IF snap[i].key[1] # class
    THEN ClassLoopFreeNoops(T, snap, i + 1, class)
    ELSE Strict([E \in {ApplyEntry(T.s, snap[i].key, snap[i].val)} |->
                  IF E.raised
                  THEN [T EXCEPT !.s = E.s, !.raised = TRUE]
                  ELSE Strict([T1 \in {[T EXCEPT
                                          !.s = [E.s EXCEPT !.calls = <<>>],
                                          !.pending = PendingDel(@, snap[i].key),
                                          !.applied = IF E.s.calls = <<>>
                                                      THEN @ ELSE @ + 1,
                                          !.log = Append(@,
                                                    [key |-> snap[i].key,
                                                     val |-> snap[i].val,
                                                     calls |-> E.s.calls])]} |->
                                 ClassLoopFreeNoops(T1, snap, i + 1, class)])])

\* One apply loop over the snapshot list(pending_latest.items()).  T is the
\* running tick: the screen, the map, the applied counter, the entries
\* applied so far, each with the widget calls it made, and whether an
\* exception has left the tick.
RECURSIVE ClassLoop(_, _, _, _)
ClassLoop(T, snap, i, class) ==
    IF i > Len(snap) \/ T.raised THEN T
    ELSE IF T.applied >= MAX_APPLIES_PER_TICK THEN T
    ELSE IF snap[i].key[1] # class THEN ClassLoop(T, snap, i + 1, class)
    ELSE Strict([E \in {ApplyEntry(T.s, snap[i].key, snap[i].val)} |->
                  IF E.raised
                  THEN [T EXCEPT !.s = E.s, !.raised = TRUE]
                  ELSE Strict([T1 \in {[T EXCEPT
                                          !.s = [E.s EXCEPT !.calls = <<>>],
                                          !.pending = PendingDel(@, snap[i].key),
                                          !.applied = @ + 1,
                                          !.log = Append(@,
                                                    [key |-> snap[i].key,
                                                     val |-> snap[i].val,
                                                     calls |-> E.s.calls])]} |->
                                 ClassLoop(T1, snap, i + 1, class)])])

\* Mutant of ApplyLoops: the SET loop runs first.
RECURSIVE ApplyLoopsIn(_, _, _)
ApplyLoopsIn(T, k, order) ==
    IF k > Len(order) THEN T
    ELSE Strict([T1 \in {ClassLoop(T, T.pending, 1, order[k])} |->
                   ApplyLoopsIn(T1, k + 1, order)])
ApplyLoopsSetFirst(T, k) ==
    ApplyLoopsIn(T, k, <<"SET", "BG", "ALIGN", "BAR", "RING_SET",
                         "RING_STYLE", "RING_VALUE", "ARC">>)

\* Lines 832-911: the loops in their order.
RECURSIVE ApplyLoops(_, _)
ApplyLoops(T, k) ==
    IF k > Len(CLASS_ORDER) THEN T
    ELSE Strict([T1 \in {ClassLoop(T, T.pending, 1, CLASS_ORDER[k])} |->
                   ApplyLoops(T1, k + 1)])

\* Mutant of DrainAndApply: what the cap defers is dropped from the map.
DrainAndApplyDropsDeferred(S, pending, q) ==
    Strict([T0 \in {[s |-> S, pending |-> Drain(pending, q), applied |-> 0,
                     log |-> <<>>, raised |-> FALSE]} |->
      Strict([T \in {ApplyLoops(T0, 1)} |->
                IF T.raised THEN T ELSE [T EXCEPT !.pending = <<>>]])])

\* _drain_and_apply up to its last line.
DrainAndApply(S, pending, q) ==
    Strict([T \in {[s |-> S, pending |-> Drain(pending, q), applied |-> 0,
                    log |-> <<>>, raised |-> FALSE]} |->
              ApplyLoops(T, 1)])

\* The payload the last message of this key in the queue carries.
RECURSIVE LastVal(_, _)
LastVal(q, key) ==
    IF EntryOf(q[Len(q)]).key = key THEN EntryOf(q[Len(q)]).val
    ELSE LastVal(SubSeq(q, 1, Len(q) - 1), key)

\* The messages of the queue that a later message of the same key follows,
\* each with the payload of the last message of its key.
RECURSIVE Superseded(_, _)
Superseded(q, i) ==
    IF i >= Len(q) THEN <<>>
    ELSE IF \E j \in (i + 1)..Len(q) : EntryOf(q[j]).key = EntryOf(q[i]).key
         THEN <<[key |-> EntryOf(q[i]).key, val |-> EntryOf(q[i]).val,
                 last |-> LastVal(q, EntryOf(q[i]).key)]>>
              \o Superseded(q, i + 1)
         ELSE Superseded(q, i + 1)

(***************************************************************************)
(* State.                                                                  *)
(***************************************************************************)
VARIABLES
    udp_queue,       \* queue.Queue of parsed messages
    pending_latest,  \* the coalescing map
    screen,          \* the widgets and caches of every cell
    tick_scheduled,  \* an after() callback for _drain_and_apply is armed
    feed,            \* which sender is connected
    quota,           \* datagrams the sender has left; Unlimited for a flood
    tick_carried,    \* history: entries the map held when the last tick began
    tick_drained,    \* history: the map right after the last tick's drain
    tick_log,        \* history: the entries the last tick applied, in order
    tick_lost,       \* history: the queue entries the last drain replaced
    tick_raised,     \* history: the last tick was left by an exception
    sent,            \* history: the datagrams received, for recorded feeds
    tick_pc,         \* where the timer callback is: "idle" or "draining"
    dequeued,        \* history: the messages get_nowait has returned one by
                     \* one, for recorded feeds
    recv_failed      \* history: a recvfrom has raised an error, not a timeout

vars == <<udp_queue, pending_latest, screen, tick_scheduled, feed, quota,
          tick_carried, tick_drained, tick_log, tick_lost, tick_raised, sent,
          tick_pc, dequeued, recv_failed>>

Unlimited == 0 - 1
BoundedFeeds == {"text", "bar"}
\* The feeds whose datagrams are recorded in sent.
RecordedFeeds == {"scenario1", "malformed", "interleave", "rebuild"}
AddrFeeds == {"outside_text", "outside_ring", "order_text", "order_ring"}
StyleFeeds == {"ring", "align", "label", "refuse"}
ModeFeeds == {"keep", "override", "rebuild", "reorder"}
ParseFeeds == {"malformed", "semi"}
AllLines ==
    UNION { FeedLines(f) : f \in {"text", "bar", "scenario1", "flood", "burst",
                                   "interleave", "sock", "extent"}
                                   \cup AddrFeeds \cup StyleFeeds
                                   \cup ModeFeeds
                                   \cup ParseFeeds }

\* What the receiver makes of each datagram of the feeds.
Received == [line \in AllLines |-> ReceiveLine(line)]

InitCommon ==
    /\ udp_queue = <<>>
    /\ pending_latest = <<>>
    /\ screen = InitScreen
    /\ tick_scheduled = TRUE
    /\ tick_carried = 0
    /\ tick_drained = <<>>
    /\ tick_log = <<>>
    /\ tick_lost = <<>>
    /\ tick_raised = FALSE
    /\ sent = <<>>
    /\ tick_pc = "idle"
    /\ dequeued = <<>>
    /\ recv_failed = FALSE

Init ==
    /\ InitCommon
    /\ feed \in BoundedFeeds
    /\ quota = MaxCmds

\* listener_loop, one datagram: parse it and enqueue the message if any.
Recv ==
    /\ quota # 0
    /\ Len(udp_queue) < MaxQueue
    /\ \E line \in FeedLines(feed) :
         LET msg == Received[line]
         IN  /\ udp_queue' = IF msg # None THEN Append(udp_queue, The(msg))
                             ELSE udp_queue
             /\ sent' = IF feed \in RecordedFeeds THEN Append(sent, line)
                        ELSE sent
    /\ quota' = IF quota = Unlimited THEN quota ELSE quota - 1
    /\ UNCHANGED <<pending_latest, screen, tick_scheduled, feed, tick_carried,
                   tick_drained, tick_log, tick_lost, tick_raised, tick_pc,
                   dequeued, recv_failed>>

\* _drain_and_apply, run by the timer with no datagram arriving while it
\* drains: drain, apply, re-arm (line 913).  An
\* exception leaves the callback before line 913; Tk reports it and the
\* main loop goes on without the timer.
Tick ==
    /\ tick_scheduled
    /\ tick_pc = "idle"
    /\ \E T \in {DrainAndApply(screen, pending_latest, udp_queue)} :
           /\ udp_queue' = <<>>
           /\ pending_latest' = T.pending
           /\ screen' = T.s
           /\ tick_scheduled' = ~T.raised
           /\ tick_carried' = Len(pending_latest)
           /\ tick_drained' = Drain(pending_latest, udp_queue)
           /\ tick_log' = T.log
           /\ tick_lost' = Superseded(udp_queue, 1)
           /\ tick_raised' = T.raised
    /\ UNCHANGED <<feed, quota, sent, tick_pc, dequeued, recv_failed>>

Next == Recv \/ Tick

Spec == Init /\ [][Next]_vars

\* A sender of a burst of up to five keys that then stops, under a timer
\* that fires while it is armed.
InitFair ==
    /\ InitCommon
    /\ feed = "burst"
    /\ quota = MaxCmds

SpecFair == InitFair /\ [][Next]_vars /\ WF_vars(Tick)

\* Scenario 1 of the specification: a sender of the HELLO line, the BG line
\* and an ALIGN line, its datagrams recorded.
InitScenario1 ==
    /\ InitCommon
    /\ feed = "scenario1"
    /\ quota = MaxCmds

SpecScenario1 == InitScenario1 /\ [][Next]_vars

\* A sender that never stops, under a timer that keeps firing.
InitLive ==
    /\ InitCommon
    /\ feed = "flood"
    /\ quota = Unlimited

SpecLive == InitLive /\ [][Next]_vars /\ WF_vars(Tick)

\* Senders that exercise the addressing: lines of every kind addressed
\* outside the grid or to a non-bar row, and lines whose two address
\* integers differ.
InitAddr ==
    /\ InitCommon
    /\ feed \in AddrFeeds
    /\ quota = MaxCmds

SpecAddr == InitAddr /\ [][Next]_vars

\* Senders that exercise colours, align tokens and the labels of a ring.
InitStyle ==
    /\ InitCommon
    /\ feed \in StyleFeeds
    /\ quota = MaxCmds

SpecStyle == InitStyle /\ [][Next]_vars

\* Senders that exercise the parser: lines it must drop, and SET lines that
\* end in semicolons.
InitParse ==
    /\ InitCommon
    /\ feed \in ParseFeeds
    /\ quota = MaxCmds

SpecParse == InitParse /\ [][Next]_vars

\* queue.Queue.get_nowait on a queue that is not empty: the oldest message.
QueueGetLast(q) == [msg |-> q[Len(q)], rest |-> SubSeq(q, 1, Len(q) - 1)]
QueueGet(q) == [msg |-> Head(q), rest |-> Tail(q)]

\* _drain_and_apply, lines 792-830, one turn of the drain loop: get_nowait
\* returns a message and the message is stored in the map.  The receiver
\* thread may enqueue between two turns.
TickGet ==
    /\ tick_scheduled
    /\ udp_queue # <<>>
    /\ \E G \in {QueueGet(udp_queue)} :
           /\ udp_queue' = G.rest
           /\ pending_latest' = PendingPut(pending_latest, EntryOf(G.msg).key,
                                           EntryOf(G.msg).val)
           /\ dequeued' = IF feed \in RecordedFeeds
                          THEN Append(dequeued, G.msg) ELSE dequeued
    /\ tick_pc' = "draining"
    /\ tick_carried' = IF tick_pc = "idle" THEN Len(pending_latest)
                       ELSE tick_carried
    /\ UNCHANGED <<screen, tick_scheduled, feed, quota, tick_drained, tick_log,
                   tick_lost, tick_raised, sent, recv_failed>>

\* _drain_and_apply, lines 795-913: get_nowait raises Empty, the drain loop
\* ends, the apply loops run and line 913 re-arms the timer.
TickEmpty ==
    /\ tick_scheduled
    /\ udp_queue = <<>>
    /\ \E T \in {DrainAndApply(screen, pending_latest, <<>>)} :
           /\ pending_latest' = T.pending
           /\ screen' = T.s
           /\ tick_scheduled' = ~T.raised
           /\ tick_log' = T.log
           /\ tick_raised' = T.raised
    /\ tick_drained' = pending_latest
    /\ tick_carried' = IF tick_pc = "idle" THEN Len(pending_latest)
                       ELSE tick_carried
    /\ tick_pc' = "idle"
    /\ UNCHANGED <<udp_queue, feed, quota, tick_lost, sent, dequeued,
                   recv_failed>>

NextDrain == Recv \/ TickGet \/ TickEmpty

\* The receiver thread and the timer callback interleaved message by
\* message.
InitDrain ==
    /\ InitCommon
    /\ feed = "interleave"
    /\ quota = MaxCmds

SpecDrain == InitDrain /\ [][NextDrain]_vars

\* listener_loop, lines 770-784: recvfrom raises an error that is not a
\* timeout; except Exception catches it and the loop goes on.
RecvError ==
    /\ recv_failed' = TRUE
    /\ UNCHANGED <<udp_queue, pending_latest, screen, tick_scheduled, feed,
                   quota, tick_carried, tick_drained, tick_log, tick_lost,
                   tick_raised, sent, tick_pc, dequeued>>

NextSock == Recv \/ Tick \/ RecvError

\* A socket whose receive may fail.
InitSock ==
    /\ InitCommon
    /\ feed = "sock"
    /\ quota = MaxCmds

SpecSock == InitSock /\ [][NextSock]_vars

\* Senders that switch a cell between text and ring and write to a cell that
\* holds a ring or a bar.
InitMode ==
    /\ InitCommon
    /\ feed \in ModeFeeds
    /\ quota = MaxCmds

SpecMode == InitMode /\ [][Next]_vars

\* A sender that sweeps the values of the ring of one cell.
InitExtent ==
    /\ InitCommon
    /\ feed = "extent"
    /\ quota = ExtentCmds

SpecExtent == InitExtent /\ [][Next]_vars

(***************************************************************************)
(* Properties.                                                             *)
(***************************************************************************)
LogHas(key) == \E j \in 1..Len(tick_log) : tick_log[j].key = key
HasRing(a) == screen.rings[a] # None
HasBar(a) == screen.bars[a] # None

\* C1: no cell ever holds a ring and a bar at the same time, the cells of
\* the bar rows 3 and 7 included.
C1_RingBarExclusive ==
    \A a \in Grid : ~(HasRing(a) /\ HasBar(a))

\* C2: when two messages of the same key are in the queue that a tick
\* drains, the payload of the earlier one is never applied: whatever the tick
\* applies or keeps pending under that key is the payload of the last one.
C2_LastWriteWins ==
    \A i \in 1..Len(tick_lost) :
        /\ \A j \in 1..Len(tick_log) :
              tick_log[j].key = tick_lost[i].key
                  => tick_log[j].val = tick_lost[i].last
        /\ \A j \in 1..Len(tick_drained) :
              tick_drained[j].key = tick_lost[i].key
                  => tick_drained[j].val = tick_lost[i].last

\* C2 witness: a tick applied a key whose earlier message, of another
\* payload, had been replaced in the drain.
C2_Witness ==
    \E i \in 1..Len(tick_lost) :
        /\ tick_lost[i].val # tick_lost[i].last
        /\ LogHas(tick_lost[i].key)

\* C3: a tick that applies a RING_VALUE entry of a cell for which a
\* RING_STYLE entry was pending after the drain has applied that style entry
\* earlier in the same tick; the value is never applied while the style is
\* left pending.
C3_StyleBeforeValue ==
    \A j \in 1..Len(tick_log) :
        LET k == tick_log[j].key
            style == <<"RING_STYLE", k[2], k[3]>>
        IN  (k[1] = "RING_VALUE" /\ KeyIndex(tick_drained, style) > 0)
                => \E i \in 1..(j - 1) : tick_log[i].key = style

\* C3 witness: the value arrived before the style, and the tick applied the
\* style first.
C3_Witness ==
    \E i, j \in 1..Len(tick_log) :
        /\ i < j
        /\ tick_log[i].key[1] = "RING_STYLE"
        /\ tick_log[j].key = <<"RING_VALUE", tick_log[i].key[2], tick_log[i].key[3]>>
        /\ KeyIndex(tick_drained, tick_log[j].key)
               < KeyIndex(tick_drained, tick_log[i].key)

\* C4: every tick applies and removes exactly min(n, MAX_APPLIES_PER_TICK)
\* entries, n being the number of entries pending after the drain.
C4_ExactCount ==
    /\ Len(tick_log) = Min(Len(tick_drained), MAX_APPLIES_PER_TICK)
    /\ Len(pending_latest) = Len(tick_drained) - Len(tick_log)

\* The count of C4 in the ticks that no exception leaves.
ExactCountUnlessRaised == ~tick_raised => C4_ExactCount

\* C5: an entry of the pending map stays under its key until a tick applies
\* it, and its payload changes only to the payload of the last message of
\* that key a tick drains; an entry pending after a tick's drain that the
\* tick did not apply is in the map after the tick, payload unchanged.
C5_DeferredPersist ==
    [][(\A i \in 1..Len(pending_latest) :
         LET k == pending_latest[i].key
             drained == udp_queue' = <<>>
                        /\ \E m \in 1..Len(udp_queue) :
                              EntryOf(udp_queue[m]).key = k
         IN  IF KeyIndex(pending_latest', k) > 0
             THEN pending_latest'[KeyIndex(pending_latest', k)].val
                    = IF drained THEN LastVal(udp_queue, k)
                      ELSE pending_latest[i].val
             ELSE \E j \in 1..Len(tick_log') : tick_log'[j].key = k)
       /\ \A i \in 1..Len(tick_drained') :
             LET k == tick_drained'[i].key
             IN  IF KeyIndex(pending_latest', k) > 0
                 THEN pending_latest'[KeyIndex(pending_latest', k)].val
                        = tick_drained'[i].val
                 ELSE \E j \in 1..Len(tick_log') : tick_log'[j].key = k]_vars

\* C5 witness: the cap deferred an entry, and the map still holds it as it
\* was after the drain.
C5_Witness ==
    /\ ~tick_raised
    /\ Len(tick_log) = MAX_APPLIES_PER_TICK
    /\ \E i \in 1..Len(tick_drained) :
          /\ ~LogHas(tick_drained[i].key)
          /\ KeyIndex(pending_latest, tick_drained[i].key) > 0
          /\ pending_latest[KeyIndex(pending_latest, tick_drained[i].key)].val
                 = tick_drained[i].val

\* C6: the sender stops after finitely many datagrams; if the timer stays
\* armed, the queue and the pending map are eventually empty for good.
C6_EventuallyDrained ==
    ([]tick_scheduled) => <>[](udp_queue = <<>> /\ pending_latest = <<>>)

\* C6 witness: the sender is done, the burst was larger than the cap, and a
\* later tick that drained nothing new has applied the entries the cap had
\* left in the map.
C6_Witness ==
    /\ quota = 0
    /\ tick_scheduled
    /\ tick_carried > 0
    /\ Len(tick_drained) = tick_carried
    /\ Len(tick_log) = tick_carried
    /\ udp_queue = <<>>
    /\ pending_latest = <<>>

\* C7: under a timer that keeps firing, every entry that is in the pending
\* map is eventually applied, whatever the sender keeps sending.
FloodKeys == {<<"SET", 0, 0>>, <<"BG", 0, 0>>, <<"BG", 0, 1>>}
C7_EveryEntryApplied ==
    \A k \in FloodKeys : (KeyIndex(pending_latest, k) > 0) ~> LogHas(k)

\* x is v clamped to 0..127.
IsClamped(v, x) ==
    /\ x \in 0..127
    /\ v < 0 => x = 0
    /\ v > 127 => x = 127
    /\ (0 <= v /\ v <= 127) => x = v

\* The last entry of the tick log, of one of the classes, for cell a; 0 if
\* none.
LastLogOf(classes, a) ==
    LET js == { j \in 1..Len(tick_log) :
                  /\ tick_log[j].key[1] \in classes
                  /\ <<tick_log[j].key[2], tick_log[j].key[3]>> = a }
    IN  IF js = {} THEN 0 ELSE CHOOSE j \in js : \A m \in js : m <= j

\* C8: every stored bar value and ring value lies in 0..127, and is the
\* value of the command last applied to it, clamped to that range.
C8_Clamped ==
    \A a \in Grid :
        /\ HasBar(a) =>
              /\ The(screen.bars[a]).value \in 0..127
              /\ LastLogOf({"BAR"}, a) > 0 =>
                    IsClamped(tick_log[LastLogOf({"BAR"}, a)].val,
                              The(screen.bars[a]).value)
        /\ HasRing(a) =>
              LET ring == The(screen.rings[a])
                  jv == LastLogOf({"RING_SET", "RING_VALUE"}, a)
                  ja == LastLogOf({"ARC"}, a)
              IN  /\ ring.outer_val \in 0..127
                  /\ ring.inner_val \in 0..127
                  /\ ring.extra_arc1_val \in 0..127
                  /\ ring.extra_arc2_val \in 0..127
                  /\ jv > 0 => /\ IsClamped(tick_log[jv].val[1], ring.outer_val)
                               /\ IsClamped(tick_log[jv].val[2], ring.inner_val)
                  /\ ja > 0 => /\ IsClamped(tick_log[ja].val[1],
                                            ring.extra_arc1_val)
                               /\ IsClamped(tick_log[ja].val[2],
                                            ring.extra_arc2_val)

\* C8 witness: BAR 9999 stored 127 and ARC 9999 -5 stored 127 and 0.
C8_Witness ==
    \E a \in Grid :
        /\ HasBar(a) /\ HasRing(a)
        /\ LastLogOf({"BAR"}, a) > 0
        /\ tick_log[LastLogOf({"BAR"}, a)].val = 9999
        /\ The(screen.bars[a]).value = 127
        /\ LastLogOf({"ARC"}, a) > 0
        /\ tick_log[LastLogOf({"ARC"}, a)].val = <<9999, 0 - 5>>
        /\ The(screen.rings[a]).extra_arc1_val = 127
        /\ The(screen.rings[a]).extra_arc2_val = 0

\* C9: for every cell the text label is the managed (visible) widget exactly
\* when the cell holds neither a ring nor a bar.
C9_LabelIffTextMode ==
    \A a \in Grid : screen.labels[a].managed <=> (~HasRing(a) /\ ~HasBar(a))

T_HELLO == <<"H","E","L","L","O">>
C_123456 == <<"#","1","2","3","4","5","6">>

\* Cell (0,0) as scenario 1 expects it.
HelloOn123456 ==
    LET a == <<0, 0>>
    IN  /\ screen.labels[a].managed /\ ~HasRing(a) /\ ~HasBar(a)
        /\ screen.label_vars[a] = T_HELLO
        /\ screen.labels[a].fg = C_FFFFFF
        /\ screen.labels[a].bg = C_123456
        /\ screen.labels[a].anchor = "w"

\* C10: once the HELLO line and then the BG line have been received and both
\* applied, cell (0,0) shows HELLO, fg #ffffff, bg #123456, anchored left,
\* whether one tick or two ticks drained them.
C10_HelloThenBg ==
    (/\ sent = <<L_SET_HELLO, L_BG_123456>>
     /\ udp_queue = <<>>
     /\ pending_latest = <<>>) => HelloOn123456

\* The outcome of C10 when the BG line was applied by a tick of its own.
HelloThenBgInLaterTick ==
    (/\ sent = <<L_SET_HELLO, L_BG_123456>>
     /\ udp_queue = <<>>
     /\ pending_latest = <<>>
     /\ Len(tick_log) = 1) => HelloOn123456

\* The address of a log entry, and the widget calls that write the label.
AddrOf(e) == <<e.key[2], e.key[3]>>
LabelWrites == {"vars.set", "lbl.configure(fg)", "lbl.configure(bg)",
                "lbl.configure(anchor)"}
Teardowns == {"ring_holder.destroy", "bar_holder.destroy"}
RingClasses == {"RING_STYLE", "RING_VALUE", "RING_SET", "ARC"}
HasCall(e, name) == \E i \in 1..Len(e.calls) : e.calls[i][1] = name

\* A SET with a non-empty text that the last tick applied to a cell of the
\* grid.
IsTextSet(e) ==
    e.key[1] = "SET" /\ e.val[1] # <<>> /\ InGrid(e.key[2], e.key[3])

\* C11: a SET with a non-empty text destroys the ring and the bar of its cell
\* before it makes any text, fg, bg or anchor write to the label; the ring
\* and bar slots are then none and the label is the managed widget.
C11_TeardownBeforeText ==
    \A j \in 1..Len(tick_log) :
        IsTextSet(tick_log[j]) =>
            LET e == tick_log[j]
                a == AddrOf(e)
            IN  /\ \A m, n \in 1..Len(e.calls) :
                      (e.calls[m][1] \in LabelWrites
                       /\ e.calls[n][1] \in Teardowns \cup {"lbl.pack"})
                          => n < m
                /\ ~HasRing(a) /\ ~screen.ring_holders[a]
                /\ ~HasBar(a) /\ ~screen.bar_holders[a]
                /\ screen.labels[a].managed

\* C11 witness: a SET applied to a cell that held a ring and a bar destroyed
\* both, packed the label, and then wrote the text.
C11_Witness ==
    \E j \in 1..Len(tick_log) :
        /\ IsTextSet(tick_log[j])
        /\ HasCall(tick_log[j], "ring_holder.destroy")
        /\ HasCall(tick_log[j], "bar_holder.destroy")
        /\ HasCall(tick_log[j], "lbl.pack")
        /\ HasCall(tick_log[j], "vars.set")
        /\ screen.label_vars[AddrOf(tick_log[j])] = <<"A", "B", "C">>

\* C12: a RING, RINGVAL, RINGSET or ARC applied to a cell of the grid leaves
\* the cell holding a ring, its label hidden: so it is after every such entry
\* of the last tick that no later SET followed, and so it is for the cell
\* whose ring the entry being applied was constructing.
C12_RingCommandMakesRing ==
    /\ \A j \in 1..Len(tick_log) :
          LET e == tick_log[j]
          IN  (/\ e.key[1] \in RingClasses
               /\ InGrid(e.key[2], e.key[3])
               /\ ~\E m \in (j + 1)..Len(tick_log) :
                      IsTextSet(tick_log[m]) /\ AddrOf(tick_log[m]) = AddrOf(e))
                  => HasRing(AddrOf(e)) /\ ~screen.labels[AddrOf(e)].managed
    /\ \A i \in 1..Len(screen.calls) :
          screen.calls[i][1] = "DualRing"
              => /\ HasRing(<<screen.calls[i][2], screen.calls[i][3]>>)
                 /\ ~screen.labels[<<screen.calls[i][2],
                                     screen.calls[i][3]>>].managed

\* The ring commands of C12 whose colours the toolkit accepts.
RingCommandMakesRingUnlessRaised == ~tick_raised => C12_RingCommandMakesRing

\* A RINGVAL of the last tick that created the ring of its cell, no SET
\* having torn it down since.
CreatedByRingval(e) ==
    /\ e.key[1] = "RING_VALUE"
    /\ HasCall(e, "DualRing")
    /\ ~\E m \in 1..Len(tick_log) :
           IsTextSet(tick_log[m]) /\ AddrOf(tick_log[m]) = AddrOf(e)

\* C13: a RINGVAL applied to a cell without a ring creates the ring with
\* fg_outer #606060, fg_inner #ffffff, bg #000000, widths 10 and 27 and
\* stores the clamped values; RINGVAL 0 1 64 32 leaves cell (1,0) with outer
\* 64, inner 32 and the center text "32".
C13_RingvalCreatesDefault ==
    \A j \in 1..Len(tick_log) :
        CreatedByRingval(tick_log[j]) =>
            LET e == tick_log[j]
                a == AddrOf(e)
                ring == The(screen.rings[a])
            IN  /\ HasRing(a) /\ ~screen.labels[a].managed
                /\ ring.fg_outer = <<"#","6","0","6","0","6","0">>
                /\ ring.fg_inner = <<"#","f","f","f","f","f","f">>
                /\ ring.bg = <<"#","0","0","0","0","0","0">>
                /\ ring.w_outer = 10 /\ ring.w_inner = 27
                /\ IsClamped(e.val[1], ring.outer_val)
                /\ IsClamped(e.val[2], ring.inner_val)
                /\ (e.val = <<64, 32, None>>)
                      => /\ a = <<1, 0>>
                         /\ ring.outer_val = 64 /\ ring.inner_val = 32
                         /\ ring.label = Some(<<"3", "2">>)

\* C13 witness: RINGVAL 0 1 64 32 created the ring of cell (1,0).
C13_Witness ==
    \E j \in 1..Len(tick_log) :
        /\ CreatedByRingval(tick_log[j])
        /\ tick_log[j].key = <<"RING_VALUE", 1, 0>>
        /\ tick_log[j].val = <<64, 32, None>>
        /\ HasRing(<<1, 0>>)
        /\ The(screen.rings[<<1, 0>>]).label = Some(<<"3", "2">>)

\* C14: an entry of any class whose address is outside the grid makes no
\* widget call, and a tick that applies only such entries leaves the screen
\* as it was.
C14_OutsideGridNoEffect ==
    [][Tick =>
         /\ \A j \in 1..Len(tick_log') :
               ~InGrid(tick_log'[j].key[2], tick_log'[j].key[3])
                   => tick_log'[j].calls = <<>>
         /\ (\A j \in 1..Len(tick_log') :
               ~InGrid(tick_log'[j].key[2], tick_log'[j].key[3]))
               => screen' = screen]_vars

\* C14 witness: a tick applied two entries addressed outside the grid (one of
\* them to a negative or too large row) to a screen that earlier commands had
\* written.
C14_Witness ==
    /\ Len(tick_log) = 2
    /\ \A j \in 1..Len(tick_log) :
          ~InGrid(tick_log[j].key[2], tick_log[j].key[3])
    /\ \E j \in 1..Len(tick_log) :
          tick_log[j].key[2] \notin 0..(DEFAULT_ROWS - 1)
    /\ screen # InitScreen

\* C15: a datagram addressed outside the grid is never in the command queue
\* and never in the pending map.
C15_OutsideNeverQueued ==
    /\ \A i \in 1..Len(udp_queue) : InGrid(udp_queue[i][2], udp_queue[i][3])
    /\ \A i \in 1..Len(pending_latest) :
          InGrid(pending_latest[i].key[2], pending_latest[i].key[3])

\* C16: a BAR addressed to a row other than 3 and 7 makes no widget call (it
\* creates no bar, hides no label, stores no value), and no cell of such a
\* row ever holds a bar.
C16_NoBarOffBarRows ==
    /\ \A j \in 1..Len(tick_log) :
          (tick_log[j].key[1] = "BAR" /\ tick_log[j].key[2] \notin {3, 7})
              => tick_log[j].calls = <<>>
    /\ \A a \in Grid :
          a[1] \notin {3, 7} => ~HasBar(a) /\ ~screen.bar_holders[a]

\* C16 witness: a tick applied BAR 8 0 50, and cell (8,0) still shows its
\* label.
C16_Witness ==
    /\ \E j \in 1..Len(tick_log) :
          tick_log[j].key = <<"BAR", 8, 0>> /\ tick_log[j].val = 50
    /\ screen.labels[<<8, 0>>].managed
    /\ ~HasBar(<<8, 0>>)

\* C17: a SET writes each of text, fg, bg and anchor at most once, and the
\* same SET applied again right after makes no widget call and leaves the
\* screen as it is.
C17_SetTwiceWritesOnce ==
    \A j \in 1..Len(tick_log) :
        tick_log[j].key[1] = "SET" =>
            LET e == tick_log[j]
            IN  /\ \A m, n \in 1..Len(e.calls) :
                      (e.calls[m][1] \in LabelWrites /\ e.calls[m] = e.calls[n])
                          => m = n
                /\ ApplyEntry(screen, e.key, e.val)
                       = [s |-> screen, raised |-> FALSE]

\* C17 witness: a SET that wrote text, fg, bg and anchor is the entry that is
\* applied again.
C17_Witness ==
    \E j \in 1..Len(tick_log) :
        /\ tick_log[j].key[1] = "SET"
        /\ \A w \in LabelWrites : HasCall(tick_log[j], w)

\* C18: no colour that fails validation is ever stored: not as a label's fg
\* or bg, not as a ring's fg_outer, fg_inner or bg.
C18_InvalidColourNeverStored ==
    \A a \in Grid :
        /\ validate_color(screen.labels[a].fg)
        /\ validate_color(screen.labels[a].bg)
        /\ HasRing(a) =>
              /\ validate_color(The(screen.rings[a]).fg_outer)
              /\ validate_color(The(screen.rings[a]).fg_inner)
              /\ validate_color(The(screen.rings[a]).bg)

\* The colours of C18 on the rings that a RINGVAL or an ARC created or that
\* were restyled, and on the labels: every ring but one whose creating RING
\* or RINGSET carried the colour.
InvalidColourOnlyFromCreation ==
    \A a \in Grid :
        /\ validate_color(screen.labels[a].fg)
        /\ validate_color(screen.labels[a].bg)
        /\ (HasRing(a) /\ ~validate_color(The(screen.rings[a]).fg_outer))
              => The(screen.rings[a]).fg_outer
                    = <<"#","a","a","a","b","b","b","c","c","c">>

\* The align tokens _map_anchor knows.
IsAlignToken(tok) == Lower(Strip(tok)) \in A_L \cup A_C \cup A_R

\* An ALIGN or a SET whose align token is none of the known ones.
HasBadAlign(e) ==
    \/ e.key[1] = "ALIGN" /\ ~IsAlignToken(e.val)
    \/ e.key[1] = "SET" /\ e.val[4] # None /\ ~IsAlignToken(The(e.val[4]))

\* C19: a tick that applies to a cell only an ALIGN or SET whose align token
\* is not a known one leaves the anchor of the cell as it was.
C19_BadAlignKeepsAnchor ==
    [][Tick =>
         \A j \in 1..Len(tick_log') :
             (/\ HasBadAlign(tick_log'[j])
              /\ InGrid(tick_log'[j].key[2], tick_log'[j].key[3])
              /\ \A m \in 1..Len(tick_log') :
                    AddrOf(tick_log'[m]) = AddrOf(tick_log'[j]) => m = j)
                 => screen'.labels[AddrOf(tick_log'[j])].anchor
                       = screen.labels[AddrOf(tick_log'[j])].anchor]_vars

\* The class and address a line carries when its two address integers are
\* read as the claim says; set_row_first tells how a SET line is read.
AddrAsRead(line, set_row_first) ==
    LET t == Split(line)
        head == Upper(t[1])
    IN  IF head = H_BG THEN <<"BG", IntOf(t[2]), IntOf(t[3])>>
        ELSE IF head = H_ALIGN THEN <<"ALIGN", IntOf(t[2]), IntOf(t[3])>>
        ELSE IF head = H_BAR THEN <<"BAR", IntOf(t[2]), IntOf(t[3])>>
        ELSE IF head = H_RING THEN <<"RING_STYLE", IntOf(t[3]), IntOf(t[2])>>
        ELSE IF head = H_RINGVAL
        THEN <<"RING_VALUE", IntOf(t[3]), IntOf(t[2])>>
        ELSE IF head = H_RINGSET THEN <<"RING_SET", IntOf(t[3]), IntOf(t[2])>>
        ELSE IF head = H_ARC THEN <<"ARC", IntOf(t[3]), IntOf(t[2])>>
        ELSE IF set_row_first THEN <<"SET", IntOf(t[1]), IntOf(t[2])>>
        ELSE <<"SET", IntOf(t[2]), IntOf(t[1])>>

\* Every message in the queue and every entry applied is addressed as some
\* line of the feed reads, and an applied entry calls no widget of another
\* cell.
AddressedAsRead(set_row_first) ==
    /\ \A i \in 1..Len(udp_queue) :
          \E line \in FeedLines(feed) :
              EntryOf(udp_queue[i]).key = AddrAsRead(line, set_row_first)
    /\ \A j \in 1..Len(tick_log) :
          /\ \E line \in FeedLines(feed) :
                tick_log[j].key = AddrAsRead(line, set_row_first)
          /\ \A i \in 1..Len(tick_log[j].calls) :
                <<tick_log[j].calls[i][2], tick_log[j].calls[i][3]>>
                    = AddrOf(tick_log[j])

\* C20 as stated: the two integers are (row, col) on SET, BG, ALIGN and BAR
\* lines and (col, row) on RING, RINGVAL, RINGSET and ARC lines.
C20_AddressOrder == AddressedAsRead(TRUE)

\* C20 amended: the two integers are (row, col) on BG, ALIGN and BAR lines
\* and (col, row) on SET, RING, RINGVAL, RINGSET and ARC lines; the command
\* targets the cell so addressed.
C20_AddressOrderSetColRow == AddressedAsRead(FALSE)

\* C20 witness: the line 1 2 #fff #000 left X was applied to cell (row 2,
\* col 1), and BG 1 2 #abc to cell (row 1, col 2).
C20_Witness ==
    /\ screen.label_vars[<<2, 1>>] = <<"X">>
    /\ screen.labels[<<1, 2>>].bg = <<"#", "a", "b", "c">>
    /\ \E j \in 1..Len(tick_log) : tick_log[j].key = <<"SET", 2, 1>>

(***************************************************************************)
(* The parser: C21 to C23.                                                 *)
(***************************************************************************)
\* The tokens of a received line, one trailing semicolon taken off.
TokensOf(line) ==
    LET l0 == Strip(line)
        l1 == IF l0 # <<>> /\ l0[Len(l0)] = ";"
              THEN SubSeq(l0, 1, Len(l0) - 1) ELSE l0
    IN  Split(l1)

\* The queued SET messages are each the reading R(line) of a line of the
\* feed that the receiver turns into that message.
QueuedSetsReadAs(R(_)) ==
    \A i \in 1..Len(udp_queue) :
        udp_queue[i][1] = "SET" =>
            \E line \in FeedLines(feed) :
                /\ Received[line] = Some(udp_queue[i])
                /\ R(line) = <<udp_queue[i][6], udp_queue[i][7]>>

\* The align and text of an implicit SET line when the fifth token is the
\* align only if it is a known align token, and every semicolon the text
\* ends in is dropped.
SetFifthTokenIfKnown(line) ==
    LET t == TokensOf(line)
    IN  IF Len(t) >= 5 /\ IsAlignToken(t[5])
        THEN <<Some(t[5]), RStripSemi(JoinFrom(t, 6))>>
        ELSE <<None, RStripSemi(JoinFrom(t, 5))>>

\* C21: every queued SET carries the fifth token of its line as the align if
\* and only if that token is one of l, left, c, center, centre, mid, middle,
\* r, right in any case, and otherwise carries no align and a text that
\* starts with the fifth token.
C21_FifthTokenAlignIffKnown == QueuedSetsReadAs(SetFifthTokenIfKnown)

\* Lines the parser is to drop: a head that is no command and no integer, a
\* known head with fewer tokens than the command takes, a token that is no
\* integer where an integer is read.
UnknownHeadLines == {L_UNKNOWN_HEAD, L_UNKNOWN_SHORT}
TooFewTokenLines == {L_BAR_SHORT, L_RING_FEW}
NonIntegerLines == {L_BOGUS, L_SET_NONINT}
MalformedLines == UnknownHeadLines \cup TooFewTokenLines \cup NonIntegerLines

\* C22: receiving a line with an unknown head, with too few tokens for its
\* head or with a non-integer where an integer is read enqueues nothing and
\* changes no cell; no queued SET comes from a line with a known head.
C22_MalformedDropped ==
    [][(Len(sent') > Len(sent) /\ sent'[Len(sent')] \in MalformedLines)
          => /\ UNCHANGED <<udp_queue, pending_latest, screen>>
             /\ \A i \in 1..Len(udp_queue') :
                   \E k \in 1..Len(sent) :
                       /\ sent[k] \notin MalformedLines
                       /\ Received[sent[k]] = Some(udp_queue'[i])]_vars

\* C22 witness: RING with seven tokens, BAR with a non-integer column and a
\* line with an unknown head were received after a well-formed line, and the
\* well-formed line is the only one queued.
C22_Witness ==
    /\ feed = "malformed"
    /\ Len(sent) = MaxCmds
    /\ sent[1] = L_SET_HELLO
    /\ {sent[k] : k \in 2..Len(sent)}
           = {L_RING_FEW, L_BOGUS, L_UNKNOWN_HEAD}
    /\ Len(udp_queue) = 1
    /\ udp_queue[1][1] = "SET"

\* The align and text of an implicit SET line when exactly one trailing
\* semicolon is taken off the line.
SetOneSemicolonOff(line) ==
    LET t == TokensOf(line)
    IN  IF Len(t) >= 6 THEN <<Some(t[5]), JoinFrom(t, 6)>>
                       ELSE <<None, JoinFrom(t, 5)>>

\* C23: the text of every queued SET is the rest of its line with exactly
\* one trailing semicolon removed, so a text sent with k semicolons at its
\* end keeps k - 1 of them.
C23_OneSemicolonStripped == QueuedSetsReadAs(SetOneSemicolonOff)

(***************************************************************************)
(* The labels of a ring: C24 and C25.                                      *)
(***************************************************************************)
\* C24: the center label of every ring shows the center text override when
\* one is set and the decimal of max(1, inner_val) otherwise, whatever RING,
\* RINGVAL, RINGSET and ARC commands were applied, a restyle of an existing
\* ring included.
C24_CenterLabelShown ==
    \A a \in Grid :
        HasRing(a) =>
            LET ring == The(screen.rings[a])
            IN  ring.label = IF ring.center_override # None
                             THEN ring.center_override
                             ELSE Some(IntStr(Max(1, ring.inner_val)))

\* C25: the top-right corner label of every ring shows extra1_val and the
\* top-left corner label shows extra2_val, whatever ARC, RING, RINGVAL and
\* RINGSET commands were applied.
C25_CornerLabelsShown ==
    \A a \in Grid :
        HasRing(a) =>
            LET ring == The(screen.rings[a])
            IN  /\ ring.extra_label1 = Some(IntStr(ring.extra_arc1_val))
                /\ ring.extra_label2 = Some(IntStr(ring.extra_arc2_val))

(***************************************************************************)
(* The caches of set_cell: C29 and C30.                                    *)
(***************************************************************************)
RefusedWrites == {"lbl.configure(fg) refused", "lbl.configure(bg) refused",
                  "cell.configure(bg) refused"}

\* The colour that entry e hands to the write named w.
ColourWritten(e, w) ==
    IF e.key[1] = "BG" THEN e.val
    ELSE IF w = "lbl.configure(fg) refused" THEN e.val[2]
    ELSE e.val[3]

\* C29: when the widget refused a write of an entry that the last tick
\* applied, the cache of that attribute does not hold the refused value, and
\* applying the same entry again attempts the same write again.
C29_RefusedWriteRetried ==
    \A j \in 1..Len(tick_log) :
        LET e == tick_log[j]
        IN  \A i \in 1..Len(e.calls) :
                e.calls[i][1] \in RefusedWrites =>
                    /\ IF e.calls[i][1] = "lbl.configure(fg) refused"
                       THEN screen.last_fg[AddrOf(e)]
                                # Some(ColourWritten(e, e.calls[i][1]))
                       ELSE screen.last_bg[AddrOf(e)]
                                # Some(ColourWritten(e, e.calls[i][1]))
                    /\ \E k \in 1..Len(ApplyEntry(screen, e.key, e.val).s.calls) :
                          ApplyEntry(screen, e.key, e.val).s.calls[k]
                              = e.calls[i]

\* C29 witness: the last tick applied a SET whose fg the label refused and a
\* BG whose colour the label refused.
C29_Witness ==
    /\ \E j \in 1..Len(tick_log) :
          /\ tick_log[j].key[1] = "SET"
          /\ HasCall(tick_log[j], "lbl.configure(fg) refused")
    /\ \E j \in 1..Len(tick_log) :
          /\ tick_log[j].key[1] = "BG"
          /\ HasCall(tick_log[j], "lbl.configure(bg) refused")

\* The caches of cell a in screen S hold what the widgets show.
CachesMatch(S, a) ==
    /\ S.last_text[a] # None => The(S.last_text[a]) = S.label_vars[a]
    /\ S.last_fg[a] # None => The(S.last_fg[a]) = S.labels[a].fg
    /\ S.last_bg[a] # None => /\ The(S.last_bg[a]) = S.labels[a].bg
                              /\ The(S.last_bg[a]) = S.cell_frames[a].bg
    /\ S.last_anchor[a] # None => The(S.last_anchor[a]) = S.labels[a].anchor

C26_ReceiverStopsOnError ==
    [][recv_failed => Len(udp_queue') <= Len(udp_queue)]_vars

\* The messages the receiver has enqueued for the lines it received, in the
\* order of parsing.
RECURSIVE EnqueuedOf(_)
EnqueuedOf(lines) ==
    IF lines = <<>> THEN <<>>
    ELSE IF Received[Head(lines)] = None THEN EnqueuedOf(Tail(lines))
    ELSE <<The(Received[Head(lines)])>> \o EnqueuedOf(Tail(lines))

\* C27: however the receiver's enqueues interleave with the turns of the
\* drain loop, the messages dequeued so far followed by the messages still
\* queued are exactly the messages enqueued, each once and in the order of
\* parsing.
C27_DequeuedOnceInOrder ==
    dequeued \o udp_queue = EnqueuedOf(sent)

\* C27 witness: more messages than the queue holds at a time were dequeued
\* before any entry was applied, so a datagram was received between two
\* turns of the drain loop.
C27_Witness ==
    /\ tick_pc = "draining"
    /\ Len(dequeued) > MaxQueue
    /\ screen = InitScreen
    /\ \E i, j \in 1..Len(dequeued) : dequeued[i] # dequeued[j]

\* C28: every run of the timer callback ends with the next run scheduled,
\* also when datagrams arrive while it drains.
C28_TickRearms ==
    tick_pc = "idle" => tick_scheduled

(***************************************************************************)
(* The order of application within a tick: C31 and C32.                    *)
(***************************************************************************)
\* The place of a class in the order BG, ALIGN, BAR, RING_SET, RING_STYLE,
\* RING_VALUE, ARC, SET.
ClassRank(class) ==
    IF class = "BG" THEN 1
    ELSE IF class = "ALIGN" THEN 2
    ELSE IF class = "BAR" THEN 3
    ELSE IF class = "RING_SET" THEN 4
    ELSE IF class = "RING_STYLE" THEN 5
    ELSE IF class = "RING_VALUE" THEN 6
    ELSE IF class = "ARC" THEN 7
    ELSE 8

\* The entries that were pending after the drain of the last tick and that
\* the tick did not apply.
LeftUnapplied ==
    { i \in 1..Len(tick_drained) : ~LogHas(tick_drained[i].key) }

\* C31: the entries a tick applies are applied in the class order BG, ALIGN,
\* BAR, RING_SET, RING_STYLE, RING_VALUE, ARC, SET, and no applied entry is
\* of a later class than an entry that was pending after the drain and was
\* left unapplied.
C31_ClassOrder ==
    /\ \A i, j \in 1..Len(tick_log) :
          i < j => ClassRank(tick_log[i].key[1]) <= ClassRank(tick_log[j].key[1])
    /\ \A i \in LeftUnapplied :
          \A j \in 1..Len(tick_log) :
              ClassRank(tick_log[j].key[1]) <= ClassRank(tick_drained[i].key[1])

\* C31 witness: the cap cut the last tick short after entries of two
\* classes, the SET that arrived first among them left for a later tick.
C31_Witness ==
    /\ Len(tick_log) = MAX_APPLIES_PER_TICK
    /\ ClassRank(tick_log[1].key[1]) < ClassRank(tick_log[Len(tick_log)].key[1])
    /\ \E i \in LeftUnapplied :
          /\ tick_drained[i].key[1] = "SET"
          /\ i = 1

\* The last tick applied a ring command to the cell of entry e.
RingAppliedWith(e) ==
    \E j \in 1..Len(tick_log) :
        /\ tick_log[j].key[1] \in RingClasses
        /\ AddrOf(tick_log[j]) = AddrOf(e)

\* C32: when a tick applies a RING, RINGVAL, RINGSET or ARC and a SET with a
\* non-empty text to the same cell, the cell ends the tick in text mode: it
\* holds no ring, its label is shown and the label shows the text of the SET.
C32_TextWinsOverRing ==
    \A j \in 1..Len(tick_log) :
        (IsTextSet(tick_log[j]) /\ RingAppliedWith(tick_log[j])) =>
            /\ ~HasRing(AddrOf(tick_log[j]))
            /\ screen.labels[AddrOf(tick_log[j])].managed
            /\ screen.label_vars[AddrOf(tick_log[j])] = tick_log[j].val[1]

\* C32 witness: the last tick created a ring in a cell and applied a SET with
\* a text to the same cell, which destroyed the ring.
C32_Witness ==
    \E j \in 1..Len(tick_log) :
        /\ IsTextSet(tick_log[j])
        /\ RingAppliedWith(tick_log[j])
        /\ HasCall(tick_log[j], "ring_holder.destroy")
        /\ \E k \in 1..Len(tick_log) : HasCall(tick_log[k], "DualRing")

(***************************************************************************)
(* The extents of the arcs: C33.                                           *)
(***************************************************************************)
\* The stored values of a ring and the extents of its arcs, in the order
\* outer, inner, extra1, extra2.
ArcValues(ring) ==
    <<ring.outer_val, ring.inner_val, ring.extra_arc1_val, ring.extra_arc2_val>>
ArcExtents(ring) ==
    <<ring.ext_outer, ring.ext_inner, ring.ext_extra1, ring.ext_extra2>>

\* C33: for each of the four arcs of every ring, the extent is 0 for the
\* stored value 0 and -240 degrees for the stored value 127, and of two arcs
\* the one with the larger stored value has the strictly smaller extent.
C33_ExtentDecreasing ==
    \A a \in Grid :
        HasRing(a) =>
            LET val == ArcValues(The(screen.rings[a]))
                ext == ArcExtents(The(screen.rings[a]))
            IN  \A i \in 1..4 :
                    /\ val[i] \in 0..127
                    /\ val[i] = 0 => ext[i] = 0
                    /\ val[i] = 127 => ext[i] = (0 - 240) * 2^MantissaBits
                    /\ \A j \in 1..4 : val[i] < val[j] => ext[i] > ext[j]

\* C33 witness: a ring with the outer value 126 and the inner value 127.
C33_Witness ==
    /\ HasRing(<<1, 0>>)
    /\ The(screen.rings[<<1, 0>>]).outer_val = 126
    /\ The(screen.rings[<<1, 0>>]).inner_val = 127
    /\ The(screen.rings[<<1, 0>>]).ext_outer
           > The(screen.rings[<<1, 0>>]).ext_inner

(***************************************************************************)
(* What a command leaves alone: C34 to C37.                                *)
(***************************************************************************)
\* Everything screen S holds for cell a.
CellState(S, a) ==
    [text |-> S.label_vars[a], label |-> S.labels[a],
     frame |-> S.cell_frames[a],
     caches |-> <<S.last_text[a], S.last_fg[a], S.last_bg[a],
                  S.last_anchor[a]>>,
     ring |-> <<S.ring_holders[a], S.rings[a]>>,
     bar |-> <<S.bar_holders[a], S.bars[a]>>]

\* The cells the commands of a tick are addressed to: those of the entries
\* applied and, when an exception left the tick, of the entries that were
\* pending.
AddressedCells(log, drained, raised) ==
    { AddrOf(log[j]) : j \in 1..Len(log) }
        \cup (IF raised THEN { AddrOf(drained[i]) : i \in 1..Len(drained) }
              ELSE {})

\* C34: a tick leaves the label, the caches, the ring and the bar of every
\* cell that none of the commands it applies is addressed to as they were.
C34_OtherCellsUnchanged ==
    [][\A a \in Grid :
          a \notin AddressedCells(tick_log', tick_drained', tick_raised')
              => CellState(screen', a) = CellState(screen, a)]_vars

\* C34 witness: the last tick applied the SET for cell (2,1) and nothing for
\* cell (1,2), whose bg and anchor an earlier tick had set.
C34_Witness ==
    /\ LogHas(<<"SET", 2, 1>>)
    /\ screen.label_vars[<<2, 1>>] = <<"X">>
    /\ <<1, 2>> \notin AddressedCells(tick_log, tick_drained, tick_raised)
    /\ screen.last_bg[<<1, 2>>] # None
    /\ screen.last_anchor[<<1, 2>>] # None

\* A BG, an ALIGN or a SET whose text is empty.
IsPlainWrite(e) ==
    \/ e.key[1] \in {"BG", "ALIGN"}
    \/ e.key[1] = "SET" /\ e.val[1] = <<>>

\* The ring, the bar and the visibility of the label of cell a in screen S.
ModeState(S, a) ==
    [ring |-> <<S.ring_holders[a], S.rings[a]>>,
     bar |-> <<S.bar_holders[a], S.bars[a]>>,
     managed |-> S.labels[a].managed]

\* Every command of a tick that is addressed to cell a is a BG, an ALIGN or
\* a SET with an empty text.
OnlyPlainWrites(log, drained, raised, a) ==
    /\ \A j \in 1..Len(log) : AddrOf(log[j]) = a => IsPlainWrite(log[j])
    /\ raised => \A i \in 1..Len(drained) :
                    AddrOf(drained[i]) = a => IsPlainWrite(drained[i])

\* C35: a tick that applies to a cell only BG, ALIGN and SET entries with an
\* empty text creates and destroys no ring and no bar there and leaves the
\* visibility of the label alone; a ring in the cell keeps its values, its
\* style and its center override.
C35_PlainWritesKeepMode ==
    [][\A a \in Grid :
          OnlyPlainWrites(tick_log', tick_drained', tick_raised', a)
              => ModeState(screen', a) = ModeState(screen, a)]_vars

\* C35 witness: the last tick applied a BG, an ALIGN or a SET with an empty
\* text, and no ring command, to cell (1,0), whose ring still has the center
\* override ABC, and the label is still hidden.
C35_Witness ==
    /\ HasRing(<<1, 0>>)
    /\ The(screen.rings[<<1, 0>>]).center_override = Some(<<"A", "B", "C">>)
    /\ ~screen.labels[<<1, 0>>].managed
    /\ LogHas(<<"SET", 1, 0>>)
    /\ LogHas(<<"BG", 1, 0>>)
    /\ OnlyPlainWrites(tick_log, tick_drained, tick_raised, <<1, 0>>)
    /\ screen.last_text[<<1, 0>>] = Some(<<>>)

\* The RINGVAL entries the tick that made log applied to cell a.
RingvalsFor(log, a) ==
    { j \in 1..Len(log) : log[j].key[1] = "RING_VALUE" /\ AddrOf(log[j]) = a }

\* C36: on a ring that a tick keeps, a RINGVAL without text stores its outer
\* and inner values and leaves the center override as it is; the override
\* only changes through a RINGVAL that carries a text, which sets it to that
\* text or, when the text is empty, clears it.
C36_OverrideKept ==
    [][\A a \in Grid :
          (screen.rings[a] # None /\ screen'.rings[a] # None) =>
              LET old == The(screen.rings[a])
                  new == The(screen'.rings[a])
              IN  /\ \A j \in RingvalsFor(tick_log', a) :
                        /\ new.outer_val = ClipValue(tick_log'[j].val[1])
                        /\ new.inner_val = ClipValue(tick_log'[j].val[2])
                        /\ tick_log'[j].val[3] = None
                              => new.center_override = old.center_override
                  /\ new.center_override # old.center_override
                        => \E j \in RingvalsFor(tick_log', a) :
                              /\ tick_log'[j].val[3] # None
                              /\ new.center_override
                                   = IF The(tick_log'[j].val[3]) = <<>>
                                     THEN None ELSE tick_log'[j].val[3]]_vars

\* C36 witness: the last tick applied RINGVAL 0 1 10 11 to the ring of cell
\* (1,0), which has the new values and still the center override ABC.
C36_Witness ==
    /\ HasRing(<<1, 0>>)
    /\ \E j \in RingvalsFor(tick_log, <<1, 0>>) :
          tick_log[j].val = <<10, 11, None>>
    /\ The(screen.rings[<<1, 0>>]).outer_val = 10
    /\ The(screen.rings[<<1, 0>>]).inner_val = 11
    /\ The(screen.rings[<<1, 0>>]).center_override = Some(<<"A", "B", "C">>)

\* The entries of class that the tick that made log applied to cell a.
AppliedFor(log, class, a) ==
    { j \in 1..Len(log) : log[j].key[1] = class /\ AddrOf(log[j]) = a }

\* C37: a ring that RINGVAL or ARC commands create in a cell that holds none,
\* in particular after a SET with a text has destroyed the ring of the cell,
\* has the default style, the values those commands carry and 0 for every
\* other value, and the center override only if the RINGVAL carries a text.
C37_RebuiltRingIsFresh ==
    [][\A a \in Grid :
          (/\ screen.rings[a] = None
           /\ screen'.rings[a] # None
           /\ AppliedFor(tick_log', "RING_STYLE", a) = {}
           /\ AppliedFor(tick_log', "RING_SET", a) = {}) =>
              LET new == The(screen'.rings[a])
                  vals == AppliedFor(tick_log', "RING_VALUE", a)
                  arcs == AppliedFor(tick_log', "ARC", a)
              IN  /\ new.fg_outer = C_606060
                  /\ new.fg_inner = C_FFFFFF
                  /\ new.bg = C_000000
                  /\ new.w_outer = RING_OUTER_ARC_WIDTH
                  /\ new.w_inner = RING_INNER_ARC_WIDTH
                  /\ vals = {} => /\ new.outer_val = 0
                                  /\ new.inner_val = 0
                                  /\ new.center_override = None
                  /\ \A j \in vals :
                        /\ new.outer_val = ClipValue(tick_log'[j].val[1])
                        /\ new.inner_val = ClipValue(tick_log'[j].val[2])
                        /\ new.center_override
                             = IF tick_log'[j].val[3] = Some(<<>>) THEN None
                               ELSE tick_log'[j].val[3]
                  /\ arcs = {} => /\ new.extra_arc1_val = 0
                                  /\ new.extra_arc2_val = 0
                  /\ \A j \in arcs :
                        /\ new.extra_arc1_val = ClipValue(tick_log'[j].val[1])
                        /\ new.extra_arc2_val = ClipValue(tick_log'[j].val[2])]_vars

\* C37 witness: RING 0 1 #aaa #bbb #000 280 10 27, then 0 1 #fff #000 left T,
\* then ARC 0 1 5 7 were received; the SET was applied, so the styled ring was
\* destroyed, and the ring the ARC created has the default colours, the arc
\* values 5 and 7, the values 0 and 0 and no center override.
C37_Witness ==
    /\ feed = "rebuild"
    /\ sent = <<L_RING_01, L_SET_10, L_ARC_01>>
    /\ screen.last_text[<<1, 0>>] = Some(<<"T">>)
    /\ HasRing(<<1, 0>>)
    /\ LogHas(<<"ARC", 1, 0>>)
    /\ The(screen.rings[<<1, 0>>]).fg_outer = C_606060
    /\ The(screen.rings[<<1, 0>>]).extra_arc1_val = 5
    /\ The(screen.rings[<<1, 0>>]).outer_val = 0
    /\ The(screen.rings[<<1, 0>>]).center_override = None

(***************************************************************************)
(* Arrival order and the cap: C38 and C39.                                 *)
(***************************************************************************)
\* The queue q in the arrival order p, a permutation of its indices.
Reordered(q, p) == [i \in 1..Len(q) |-> q[p[i]]]

\* Two queues of the same messages in which every key has the same last
\* payload.
SameLastPerKey(q1, q2) ==
    \A i \in 1..Len(q1) :
        LastVal(q2, EntryOf(q1[i]).key) = LastVal(q1, EntryOf(q1[i]).key)

\* The cells of the screen after a tick that starts from the present screen
\* and map with the queue q.
CellsAfterTick(q) ==
    [DrainAndApply(screen, pending_latest, q).s EXCEPT !.calls = <<>>]

\* C38: when at most MAX_APPLIES_PER_TICK entries are pending after the
\* drain, the cells after the tick are the same for every arrival order of
\* the queued messages that leaves each key its last payload.
C38_ArrivalOrderIrrelevant ==
    (tick_scheduled
     /\ Len(Drain(pending_latest, udp_queue)) <= MAX_APPLIES_PER_TICK) =>
        \A p \in Permutations(1..Len(udp_queue)) :
            SameLastPerKey(udp_queue, Reordered(udp_queue, p))
                => CellsAfterTick(Reordered(udp_queue, p))
                       = CellsAfterTick(udp_queue)

\* An entry whose application does nothing: its address is outside the grid,
\* or it is a BAR for a row other than 3 and 7.
IsNoop(e) ==
    \/ ~InGrid(e.key[2], e.key[3])
    \/ e.key[1] = "BAR" /\ e.key[2] \notin {3, 7}

\* C39: an entry addressed outside the grid and a BAR for a row without bars
\* make no widget call, are among the at most MAX_APPLIES_PER_TICK entries
\* the tick applies and are gone from the map after it; the entries a tick
\* that no exception left defers are deferred because that many entries,
\* these included, were applied.
C39_NoopCountsAsApply ==
    /\ Len(tick_log) <= MAX_APPLIES_PER_TICK
    /\ \A j \in 1..Len(tick_log) :
          IsNoop(tick_log[j]) =>
              /\ tick_log[j].calls = <<>>
              /\ KeyIndex(pending_latest, tick_log[j].key) = 0
    /\ (LeftUnapplied # {} /\ ~tick_raised)
          => Len(tick_log) = MAX_APPLIES_PER_TICK

\* C39 witness: the last tick applied two entries that do nothing, one of
\* them BAR 8 0 50, and left the SET for cell (0,0) in the map.
C39_Witness ==
    /\ Len(tick_log) = MAX_APPLIES_PER_TICK
    /\ \A j \in 1..Len(tick_log) : IsNoop(tick_log[j])
    /\ LogHas(<<"BAR", 8, 0>>)
    /\ KeyIndex(pending_latest, <<"SET", 0, 0>>) > 0
    /\ screen = InitScreen

=============================================================================
